---- MODULE Spec2Model ----
(***************************************************************************)
(* Position/Trade ledger and bar-by-bar simulators of the ibkr_trading     *)
(* backtester (src/backtesting).                                           *)
(*                                                                         *)
(* Prices are Python floats in the source.  They are modelled as exact     *)
(* rationals [n, d] in lowest terms (d > 0), so that the volume-weighted   *)
(* average, the 5% take-profit levels and the slippage interpolation are   *)
(* computed, not abstracted.                                               *)
(***************************************************************************)
EXTENDS Integers, Sequences, FiniteSets, TLC

\* ------------------------------------------------------------------ bounds
MaxPrice == 2
MaxVol == 2
MaxCalls == 2
MaxBars == 3
MaxItems == 2
MaxData == 2
MaxNotices == 1
MaxDates == 2

\* ------------------------------------------------------- rational numbers
Abs(x) == IF x < 0 THEN -x ELSE x

RECURSIVE GCD(_, _)
GCD(a, b) == IF b = 0 THEN a ELSE GCD(b, a % b)

Norm(n, d) ==
    LET g == GCD(Abs(n), d)
    IN  IF n = 0 THEN [n |-> 0, d |-> 1]
        ELSE [n |-> (IF n < 0 THEN -(Abs(n) \div g) ELSE n \div g), d |-> d \div g]

RInt(x) == [n |-> x, d |-> 1]
RAdd(a, b) == Norm(a.n * b.d + b.n * a.d, a.d * b.d)
RSub(a, b) == Norm(a.n * b.d - b.n * a.d, a.d * b.d)
RMulI(a, k) == Norm(a.n * k, a.d)
RDivI(a, k) == Norm(a.n, a.d * k)
RLt(a, b) == a.n * b.d < b.n * a.d
RLe(a, b) == a.n * b.d <= b.n * a.d
RZero == RInt(0)
\* a / b for b > 0
RDiv(a, b) == Norm(a.n * b.d, a.d * b.n)

Min(a, b) == IF a <= b THEN a ELSE b

\* ------------------------------------------------------------ input sets
Symbols == {"AAA", "BBB"}
Sides == {"B", "S"}
Prices == {RInt(p) : p \in 1..MaxPrice}
Volumes == 1..MaxVol

\* ---------------------------------------------------------------- Trade
\* Trade.__init__: the seven attributes it assigns; realized_pnl starts at 0.
Trade_init(contract, price, volume, side, timestamp, comment) ==
    [contract |-> contract, price |-> price, volume |-> volume, side |-> side,
     timestamp |-> timestamp, comment |-> comment, realized_pnl |-> RZero]

\* ------------------------------------------------------------- Position
\* Position.__init__: price, volume, side and both timestamps from the fill.
Position_init(contract, price, volume, side, timestamp) ==
    [contract |-> contract, price |-> price, volume |-> volume, side |-> side,
     open_timestamp |-> timestamp, last_update |-> timestamp]

\* The two guards of Position.add, in source order.
add_check(self, trade) ==
    IF self.contract # trade.contract THEN "ValueError"
    ELSE IF self.side # trade.side THEN "ValueError"
    ELSE IF self.volume + trade.volume = 0 THEN "ZeroDivisionError"
    ELSE "none"

add_new_price_unweighted(self, trade) ==
    RDivI(RAdd(self.price, trade.price), 2)

\* (self.price * self.volume + trade.price * trade.volume) / new_total_volume
add_new_price(self, trade) ==
    RDivI(RAdd(RMulI(self.price, self.volume), RMulI(trade.price, trade.volume)),
          self.volume + trade.volume)

\* Position.add: the result is the position, the trade and the exception raised.
Position_add(self, trade) ==
    IF add_check(self, trade) # "none"
    THEN [self |-> self, trade |-> trade, exc |-> add_check(self, trade)]
    ELSE [self |-> [self EXCEPT !.price = add_new_price(self, trade),
                                !.volume = self.volume + trade.volume,
                                !.last_update = trade.timestamp],
          trade |-> trade, exc |-> "none"]

reduce_check_symbol_only(self, trade) ==
    IF self.contract # trade.contract THEN "ValueError" ELSE "none"

\* The two guards of Position.reduce, in source order.
reduce_check(self, trade) ==
    IF self.contract # trade.contract THEN "ValueError"
    ELSE IF self.side = trade.side THEN "ValueError"
    ELSE "none"

reduce_realized_pnl_long_only(self, trade) ==
    RMulI(RSub(trade.price, self.price), Min(trade.volume, self.volume))

reduce_realized_pnl_full_volume(self, trade) ==
    IF self.side = "B"
    THEN RMulI(RSub(trade.price, self.price), trade.volume)
    ELSE RMulI(RSub(self.price, trade.price), trade.volume)

\* realized_pnl of Position.reduce, on min(trade.volume, self.volume).
reduce_realized_pnl(self, trade) ==
    IF self.side = "B"
    THEN RMulI(RSub(trade.price, self.price), Min(trade.volume, self.volume))
    ELSE RMulI(RSub(self.price, trade.price), Min(trade.volume, self.volume))

reduce_flip_price_only(self, trade) ==
    IF trade.volume > self.volume
    THEN [self EXCEPT !.price = trade.price]
    ELSE self

\* "If trade volume > position volume ... we assume it flips."
reduce_flip(self, trade) ==
    IF trade.volume > self.volume
    THEN [self EXCEPT !.price = trade.price, !.side = trade.side]
    ELSE self

\* Position.reduce that also clamps the trade to the volume it closed
Position_reduce_clamps_trade(self, trade) ==
    IF reduce_check(self, trade) # "none"
    THEN [self |-> self, trade |-> trade, exc |-> reduce_check(self, trade)]
    ELSE [self |-> [reduce_flip(self, trade)
                        EXCEPT !.volume = Abs(self.volume - trade.volume),
                               !.last_update = trade.timestamp],
          trade |-> [trade EXCEPT !.realized_pnl = reduce_realized_pnl(self, trade),
                                  !.volume = Min(trade.volume, self.volume)],
          exc |-> "none"]

\* Position.reduce: the position, the stamped trade and the exception raised.
Position_reduce(self, trade) ==
    IF reduce_check(self, trade) # "none"
    THEN [self |-> self, trade |-> trade, exc |-> reduce_check(self, trade)]
    ELSE [self |-> [reduce_flip(self, trade)
                        EXCEPT !.volume = Abs(self.volume - trade.volume),
                               !.last_update = trade.timestamp],
          trade |-> [trade EXCEPT !.realized_pnl = reduce_realized_pnl(self, trade)],
          exc |-> "none"]

\* ------------------------------------------------------------ BaseStrategy
\* self.position / self.trades / self.pnl are plain dicts: functions whose
\* DOMAIN is the set of keys (a lookup of another key raises KeyError).
\* None is the Python None stored under a key.
None == [none |-> TRUE]
HasKey(dict, key) == key \in DOMAIN dict

\* Whether an object has the attribute: an object gets its
\* attributes from __init__ alone (no __getattr__).
HasAttr(obj, name) == name \in DOMAIN obj

\* Dict iteration order of self.position.items()
TickerOrder == <<"AAA", "BBB">>

reduce_position_keep_flat(self, trade, ticker) ==
    IF ~HasKey(self.position, ticker)
    THEN [self |-> self, trade |-> trade, exc |-> "KeyError"]
    ELSE IF self.position[ticker] = None
    THEN [self |-> self, trade |-> trade, exc |-> "AttributeError"]
    ELSE LET r == Position_reduce(self.position[ticker], trade) IN
         IF r.exc # "none"
         THEN [self |-> self, trade |-> trade, exc |-> r.exc]
         ELSE IF ~HasKey(self.pnl, ticker)
         THEN [self |-> [self EXCEPT !.position[ticker] = r.self],
               trade |-> r.trade, exc |-> "KeyError"]
         ELSE [self |-> [position |-> [self.position EXCEPT ![ticker] = r.self],
                         pnl |-> [self.pnl EXCEPT ![ticker] = Append(@, r.trade)],
                         trades |-> [self.trades EXCEPT ![ticker] = Append(@, r.trade)]],
               trade |-> r.trade, exc |-> "none"]

\* BaseStrategy.reduce_position(trade, ticker).  The position is reduced (and
\* set to None at volume 0) before self.pnl[ticker] is looked up: without that
\* key the call raises KeyError with the position changed, the trade stamped
\* and neither list appended to.
reduce_position(self, trade, ticker) ==
    IF ~HasKey(self.position, ticker)
    THEN [self |-> self, trade |-> trade, exc |-> "KeyError"]
    ELSE IF self.position[ticker] = None
    THEN [self |-> self, trade |-> trade, exc |-> "AttributeError"]
    ELSE LET r == Position_reduce(self.position[ticker], trade) IN
         IF r.exc # "none"
         THEN [self |-> self, trade |-> trade, exc |-> r.exc]
         ELSE IF ~HasKey(self.pnl, ticker)
         THEN [self |-> [self EXCEPT !.position[ticker] =
                                        IF r.self.volume = 0 THEN None ELSE r.self],
               trade |-> r.trade, exc |-> "KeyError"]
         ELSE [self |-> [position |-> [self.position EXCEPT ![ticker] =
                                          IF r.self.volume = 0 THEN None ELSE r.self],
                         pnl |-> [self.pnl EXCEPT ![ticker] = Append(@, r.trade)],
                         trades |-> [self.trades EXCEPT ![ticker] = Append(@, r.trade)]],
               trade |-> r.trade, exc |-> "none"]

add_position_always_opens(self, trade, ticker) ==
    IF ~HasKey(self.position, ticker)
    THEN [self |-> self, trade |-> trade, exc |-> "KeyError"]
    ELSE [self |-> [self EXCEPT
                      !.position[ticker] = Position_init(trade.contract, trade.price,
                                              trade.volume, trade.side, trade.timestamp),
                      !.trades[ticker] = Append(@, trade)],
          trade |-> trade, exc |-> "none"]

\* BaseStrategy.add_position(trade, ticker)
add_position(self, trade, ticker) ==
    IF ~HasKey(self.position, ticker)
    THEN [self |-> self, trade |-> trade, exc |-> "KeyError"]
    ELSE IF self.position[ticker] = None
    THEN [self |-> [self EXCEPT
                      !.position[ticker] = Position_init(trade.contract, trade.price,
                                              trade.volume, trade.side, trade.timestamp),
                      !.trades[ticker] = Append(@, trade)],
          trade |-> trade, exc |-> "none"]
    ELSE LET r == Position_add(self.position[ticker], trade) IN
         IF r.exc # "none"
         THEN [self |-> self, trade |-> trade, exc |-> r.exc]
         ELSE [self |-> [self EXCEPT !.position[ticker] = r.self,
                                     !.trades[ticker] = Append(@, trade)],
               trade |-> trade, exc |-> "none"]

\* The ledger part of LinRegSigmaStrategy.prepare_data(app, tickers):
\*   for ticker in tickers: self.positions[ticker] = []; self.trades[ticker] = []
\* self has no attribute positions, so the first iteration raises
prepare_data(self, tickers) ==
    IF tickers = {} THEN [self |-> self, exc |-> "none"]
    ELSE IF ~HasAttr(self, "positions") THEN [self |-> self, exc |-> "AttributeError"]
    ELSE [self |-> [self EXCEPT !.trades = [t \in DOMAIN self.trades \cup tickers |-> <<>>]],
          exc |-> "none"]

\* The second loop of BaseStrategy.finalize_positions, from index k of the
\* dict order.  final_price_dict.get(ticker, pos.avg_price) evaluates its
\* default first: a Position has no attribute avg_price.  final_price maps a
\* ticker to its last daily close (no key when it has no daily data).
RECURSIVE finalize_loop(_, _, _, _)
finalize_loop(self, final_price, last_ts, k) ==
    IF k > Len(TickerOrder) THEN [self |-> self, exc |-> "none"]
    ELSE LET ticker == TickerOrder[k]
             p == self.position[ticker]
         IN  IF ~HasKey(self.position, ticker)
             THEN finalize_loop(self, final_price, last_ts, k + 1)
             ELSE IF p # None /\ p.volume > 0
             THEN IF "avg_price" \notin DOMAIN p
                  THEN [self |-> self, exc |-> "AttributeError"]
                  ELSE LET close_price == IF HasKey(final_price, ticker)
                                          THEN final_price[ticker] ELSE p.avg_price
                           t == Trade_init(ticker, close_price, p.volume,
                                           IF p.side = "B" THEN "S" ELSE "B", last_ts,
                                           "Final close at end of simulation")
                           r == Position_reduce(p, t)
                       IN  IF r.exc # "none"
                           THEN [self |-> self, exc |-> r.exc]
                           ELSE finalize_loop(
                                  [self EXCEPT !.position[ticker] = r.self,
                                               !.trades[ticker] = Append(@, r.trade)],
                                  final_price, last_ts, k + 1)
             ELSE finalize_loop(self, final_price, last_ts, k + 1)

\* BaseStrategy.finalize_positions()
finalize_positions(self, final_price, last_ts) ==
    finalize_loop(self, final_price, last_ts, 1)

\* ------------------------------------------------------- intraday bars
\* One row of intraday_df.  A bar satisfies Low <= Open, Close <= High.
Bar(o, h, l, c, v) == [Open |-> o, High |-> h, Low |-> l, Close |-> c, Volume |-> v]
NoBar == [nobar |-> TRUE]

\* ---------------------------------------------------- OpenRangeBreakout
\* volume_threshold = 2 * (av_vol / 78) if av_vol is there, else 1e6
ORB_volume_threshold(av_vol) ==
    IF av_vol # None THEN RMulI(RDivI(av_vol, 78), 2) ELSE RInt(1000000)

ORB_entry_slippage_same_bar(df, side) ==
    IF side = "long"
    THEN Norm(8 * df.cur.Open + 2 * df.cur.High, 10)
    ELSE Norm(8 * df.cur.Open + 2 * df.cur.Low, 10)

\* OpenRangeBreakout._entry_slippage(intraday_df, i, side): df.next is row
\* i + 1 (NoBar when i + 1 = len, else its Open, High and Low), df.cur is row i.
ORB_entry_slippage(df, side) ==
    IF df.next # NoBar
    THEN IF side = "long"
         THEN Norm(8 * df.next.Open + 2 * df.next.High, 10)
         ELSE Norm(8 * df.next.Open + 2 * df.next.Low, 10)
    ELSE RInt(df.cur.Close)

ORB_entry_signal_short_first(s, df) ==
    IF s.position # None THEN "none"
    ELSE IF ~RLt(s.volume_threshold, RInt(df.prev.Volume)) THEN "none"
    ELSE IF df.cur.Low < s.lo_price THEN "short"
    ELSE IF df.cur.High > s.hi_price THEN "long"
    ELSE "none"

\* Which breakout the FLAT branch takes on row i: "long", "short" or "none"
ORB_entry_signal(s, df) ==
    IF s.position # None THEN "none"
    ELSE IF ~RLt(s.volume_threshold, RInt(df.prev.Volume)) THEN "none"
    ELSE IF df.cur.High > s.hi_price THEN "long"
    ELSE IF df.cur.Low < s.lo_price THEN "short"
    ELSE "none"

ORB_open(s, df, side, comment, slip) ==
    LET entry_price == ORB_entry_slippage(df, slip) IN
    [s EXCEPT !.position = Position_init(s.ticker, entry_price, 1, side, s.date),
              !.trades_log = Append(@, Trade_init(s.ticker, entry_price, 1, side, s.date, comment))]

ORB_entry_both_sides(s, df) ==
    LET a == IF s.position = None /\ RLt(s.volume_threshold, RInt(df.prev.Volume))
                  /\ df.cur.High > s.hi_price
             THEN ORB_open(s, df, "B", "Open long breakout", "long") ELSE s
    IN  IF s.position = None /\ RLt(s.volume_threshold, RInt(df.prev.Volume))
              /\ df.cur.Low < s.lo_price
        THEN ORB_open(a, df, "S", "Open short breakout", "short") ELSE a

\* "If no position => check breakout (long or short)"
ORB_entry(s, df) ==
    CASE ORB_entry_signal(s, df) = "long" ->
             ORB_open(s, df, "B", "Open long breakout", "long")
      [] ORB_entry_signal(s, df) = "short" ->
             ORB_open(s, df, "S", "Open short breakout", "short")
      [] OTHER -> s

\* The take-profit and stop-loss levels and predicates of the open position
ORB_tp_price(s) ==
    IF s.position.side = "B" THEN Norm(s.hi_price * 105, 100) ELSE Norm(s.lo_price * 95, 100)
ORB_sl_price(s) ==
    IF s.position.side = "B" THEN RInt(s.lo_price) ELSE RInt(s.hi_price)
ORB_tp_hit(s, bar) ==
    IF s.position.side = "B" THEN RLe(ORB_tp_price(s), RInt(bar.High))
                             ELSE RLe(RInt(bar.Low), ORB_tp_price(s))
ORB_sl_hit(s, bar) ==
    IF s.position.side = "B" THEN bar.Low <= s.lo_price ELSE bar.High >= s.hi_price

ORB_exit_branch_sl_first(s, bar) ==
    IF ORB_sl_hit(s, bar) THEN "SL"
    ELSE IF ORB_tp_hit(s, bar) THEN "TP"
    ELSE "float"

\* if take-profit ... elif stop-loss ... else floating
ORB_exit_branch(s, bar) ==
    IF ORB_tp_hit(s, bar) THEN "TP"
    ELSE IF ORB_sl_hit(s, bar) THEN "SL"
    ELSE "float"

\* x / position.avg_price - 1 for a long, 1 - x / position.avg_price for a short
Return_vs_avg(position, x) ==
    IF position.side = "B" THEN RSub(RDiv(x, position.avg_price), RInt(1))
                           ELSE RSub(RInt(1), RDiv(x, position.avg_price))

\* One exit branch: the closing Trade, position.reduce, the log, then
\* final_return from position.avg_price, position = None at volume 0, break.
ORB_close(s, close_price, comment) ==
    LET side0 == s.position.side
        close_trade == Trade_init(s.ticker, close_price, s.position.volume,
                                  IF side0 = "B" THEN "S" ELSE "B", s.date, comment)
        r == Position_reduce(s.position, close_trade)
    IN  IF r.exc # "none" THEN [s EXCEPT !.pc = "raised", !.exc = r.exc]
        ELSE IF ~HasAttr(r.self, "avg_price")
        THEN [s EXCEPT !.position = r.self, !.trades_log = Append(@, r.trade),
                       !.pc = "raised", !.exc = "AttributeError"]
        ELSE [s EXCEPT !.position = IF r.self.volume = 0 THEN None ELSE r.self,
                       !.trades_log = Append(@, r.trade),
                       !.final_return = IF side0 = "B"
                            THEN RSub(RDiv(close_price, r.self.avg_price), RInt(1))
                            ELSE RSub(RInt(1), RDiv(close_price, r.self.avg_price)),
                       !.pc = "break"]

\* "If we have a position => check TP/SL"
ORB_exit(s, df) ==
    IF s.position = None THEN s
    ELSE CASE ORB_exit_branch(s, df.cur) = "TP" ->
                 ORB_close(s, ORB_tp_price(s),
                           IF s.position.side = "B" THEN "Close long: TP" ELSE "Close short: TP")
           [] ORB_exit_branch(s, df.cur) = "SL" ->
                 ORB_close(s, ORB_sl_price(s),
                           IF s.position.side = "B" THEN "Close long: SL" ELSE "Close short: SL")
           [] OTHER ->
                 IF ~HasAttr(s.position, "avg_price")
                 THEN [s EXCEPT !.pc = "raised", !.exc = "AttributeError"]
                 ELSE [s EXCEPT !.final_return = Return_vs_avg(s.position, RInt(df.cur.Close))]

\* One iteration of the loop of OpenRangeBreakout.simulate_intraday on row i
ORB_iteration(s, df) ==
    LET t == ORB_exit(ORB_entry(s, df), df)
    IN  IF t.pc = "loop" THEN [t EXCEPT !.i = @ + 1] ELSE t

\* --------------------------------------------------- LinRegSigmaStrategy
\* The four band parameters are kwargs.get(...) results: a number or None.
LR_have_bands(s) ==
    /\ s.lr_med # None /\ s.sigma_med # None
    /\ s.lr_long # None /\ s.sigma_long # None

\* price < lr_med - 2*sigma_med and price < lr_long - 2*sigma_long
LR_long_signal(s, price) ==
    /\ LR_have_bands(s)
    /\ RLt(price, RSub(s.lr_med, RMulI(s.sigma_med, 2)))
    /\ RLt(price, RSub(s.lr_long, RMulI(s.sigma_long, 2)))

\* price > lr_med + 2*sigma_med and price > lr_long + 2*sigma_long
LR_short_signal(s, price) ==
    /\ LR_have_bands(s)
    /\ RLt(RAdd(s.lr_med, RMulI(s.sigma_med, 2)), price)
    /\ RLt(RAdd(s.lr_long, RMulI(s.sigma_long, 2)), price)

LR_open(s, self, price, side, comment) ==
    LET opened == [self EXCEPT !.position[s.ticker] =
                        Position_init(s.ticker, price, s.volume, side, s.date)]
    IN  IF ~HasKey(self.trades, s.ticker)
        THEN [s |-> [s EXCEPT !.pc = "raised", !.exc = "KeyError"], self |-> opened]
        ELSE [s |-> s,
              self |-> [opened EXCEPT !.trades[s.ticker] =
                           Append(@, Trade_init(s.ticker, price, s.volume, side, s.date, comment))]]

\* "If we have NO position for this ticker => check open signals"
LR_entry(s, self, price) ==
    IF ~HasKey(self.position, s.ticker)
    THEN [s |-> [s EXCEPT !.pc = "raised", !.exc = "KeyError"], self |-> self]
    ELSE IF self.position[s.ticker] # None THEN [s |-> s, self |-> self]
    ELSE IF LR_long_signal(s, price)
    THEN LR_open(s, self, price, "B", "Open long LR strategy intraday")
    ELSE IF LR_short_signal(s, price)
    THEN LR_open(s, self, price, "S", "Open short LR strategy intraday")
    ELSE [s |-> s, self |-> self]

\* 3.5 * sigma_med
LR_sl_band(s) == RDivI(RMulI(s.sigma_med, 7), 2)

LR_tp_hit(s, side, price) ==
    /\ s.lr_med # None
    /\ IF side = "B" THEN RLe(s.lr_med, price) ELSE RLe(price, s.lr_med)

LR_sl_hit(s, side, price) ==
    /\ s.lr_med # None /\ s.sigma_med # None
    /\ IF side = "B" THEN RLe(price, RSub(s.lr_med, LR_sl_band(s)))
                     ELSE RLe(RAdd(s.lr_med, LR_sl_band(s)), price)

LR_sl_price(s, side) ==
    IF side = "B" THEN RSub(s.lr_med, LR_sl_band(s)) ELSE RAdd(s.lr_med, LR_sl_band(s))

\* if take-profit ... elif stop-loss ... else floating
LR_exit_branch(s, side, price) ==
    IF LR_tp_hit(s, side, price) THEN "TP"
    ELSE IF LR_sl_hit(s, side, price) THEN "SL"
    ELSE "float"

\* One exit branch: the closing Trade, reduce, self.trades, then final_return
\* from self.position[ticker].avg_price, self.position[ticker] = None, break.
LR_close(s, self, close_price, comment) ==
    LET p == self.position[s.ticker]
        t == Trade_init(s.ticker, close_price, p.volume,
                        IF p.side = "B" THEN "S" ELSE "B", s.date, comment)
        r == Position_reduce(p, t)
        reduced == [self EXCEPT !.position[s.ticker] = r.self]
        logged == [reduced EXCEPT !.trades[s.ticker] = Append(@, r.trade)]
    IN  IF r.exc # "none"
        THEN [s |-> [s EXCEPT !.pc = "raised", !.exc = r.exc], self |-> self]
        ELSE IF ~HasKey(self.trades, s.ticker)
        THEN [s |-> [s EXCEPT !.pc = "raised", !.exc = "KeyError"], self |-> reduced]
        ELSE IF ~HasAttr(r.self, "avg_price")
        THEN [s |-> [s EXCEPT !.pc = "raised", !.exc = "AttributeError"], self |-> logged]
        ELSE [s |-> [s EXCEPT !.final_return = IF p.side = "B"
                                  THEN RSub(RDiv(close_price, r.self.avg_price), RInt(1))
                                  ELSE RSub(RInt(1), RDiv(close_price, r.self.avg_price)),
                              !.pc = "break"],
              self |-> [logged EXCEPT !.position[s.ticker] = None]]

\* "If we DO have a position => check TP/SL"
LR_exit(s, self, price) ==
    LET p == self.position[s.ticker] IN
    IF p = None THEN [s |-> s, self |-> self]
    ELSE CASE LR_exit_branch(s, p.side, price) = "TP" ->
                 LR_close(s, self, s.lr_med,
                          IF p.side = "B" THEN "Close long: TP" ELSE "Close short: TP")
           [] LR_exit_branch(s, p.side, price) = "SL" ->
                 LR_close(s, self, LR_sl_price(s, p.side),
                          IF p.side = "B" THEN "Close long: SL" ELSE "Close short: SL")
           [] OTHER ->
                 IF ~HasAttr(p, "avg_price")
                 THEN [s |-> [s EXCEPT !.pc = "raised", !.exc = "AttributeError"], self |-> self]
                 ELSE [s |-> [s EXCEPT !.final_return = Return_vs_avg(p, price)], self |-> self]

\* One iteration of the loop of LinRegSigmaStrategy.simulate_intraday on row i
LR_iteration(s, self, df) ==
    LET price == RInt(df.cur.Close)
        a == LR_entry(s, self, price)
        b == IF a.s.pc = "loop" THEN LR_exit(a.s, a.self, price) ELSE a
    IN  IF b.s.pc = "loop" THEN [s |-> [b.s EXCEPT !.i = @ + 1], self |-> b.self] ELSE b

\* ------------------------------------ ib_orb_bktest_initial.py: backtest()
\* open_price = '' while no position was opened
EmptyStr == [empty |-> TRUE]

\* 2 * (data[ticker].loc[daily_date, "AvVol"] / 78); data is a dict
BT_volume_threshold(s) == RMulI(RDivI(s.data[s.ticker], 78), 2)

\* Which breakout line 216-224 takes on row i: "long", "short" or "none"
BT_entry_signal(s, df) ==
    IF ~(RLt(BT_volume_threshold(s), RInt(df.prev.Volume)) /\ s.open_price = EmptyStr)
    THEN "none"
    ELSE IF df.cur.High > s.hi_price THEN "long"
    ELSE IF df.cur.Low < s.lo_price THEN "short"
    ELSE "none"

\* open_price = 0.8 * next_bar["Open"] + 0.2 * next_bar["High" / "Low"]
BT_open_price(df, direction) ==
    IF direction = "long" THEN Norm(8 * df.next.Open + 2 * df.next.High, 10)
                          ELSE Norm(8 * df.next.Open + 2 * df.next.Low, 10)

\* "Check for volume spike condition, etc."
BT_entry(s, df) ==
    IF BT_entry_signal(s, df) = "none" THEN s
    ELSE [s EXCEPT !.open_price = BT_open_price(df, BT_entry_signal(s, df)),
                   !.direction = BT_entry_signal(s, df)]

\* The exit levels and the strict comparisons of lines 230-251
BT_tp_price(s) ==
    IF s.direction = "long" THEN Norm(s.hi_price * 105, 100) ELSE Norm(s.lo_price * 95, 100)
BT_sl_price(s) ==
    IF s.direction = "long" THEN RInt(s.lo_price) ELSE RInt(s.hi_price)
BT_tp_hit(s, bar) ==
    IF s.direction = "long" THEN RLt(BT_tp_price(s), RInt(bar.High))
                            ELSE RLt(RInt(bar.Low), BT_tp_price(s))
BT_sl_hit(s, bar) ==
    IF s.direction = "long" THEN bar.Low < s.lo_price ELSE bar.High > s.hi_price

\* x / open_price - 1 for a long, 1 - x / open_price for a short
BT_return(s, x) ==
    IF s.direction = "long" THEN RSub(RDiv(x, s.open_price), RInt(1))
                            ELSE RSub(RInt(1), RDiv(x, s.open_price))

\* "If we opened a position, check for exit conditions"
BT_exit(s, df) ==
    IF s.open_price = EmptyStr THEN s
    ELSE IF BT_tp_hit(s, df.cur)
    THEN [s EXCEPT !.date_stats = BT_return(s, BT_tp_price(s)), !.pc = "break"]
    ELSE IF BT_sl_hit(s, df.cur)
    THEN [s EXCEPT !.date_stats = BT_return(s, BT_sl_price(s)), !.pc = "break"]
    ELSE [s EXCEPT !.date_stats = BT_return(s, RInt(df.cur.Close))]

\* One iteration of the bar loop of backtest() on row i: the guard on row
\* i + 1, the KeyError of data[ticker], the entry, the exit
BT_iteration(s, df) ==
    IF s.i >= df.n - 1 THEN [s EXCEPT !.pc = "break"]
    ELSE IF ~HasKey(s.data, s.ticker) THEN [s EXCEPT !.pc = "raised", !.exc = "KeyError"]
    ELSE LET t == BT_exit(BT_entry(s, df), df)
         IN  IF t.pc = "loop" THEN [t EXCEPT !.i = @ + 1] ELSE t

\* ======================================================================
\* State
\* ======================================================================
VARIABLES
    pos,        \* a Position object driven directly (Position.add / reduce)
    pre,        \* that Position as it was before the last call
    hist,       \* since construction: the opening fill and the fills added
    trade,      \* the Trade object handed to the last call, as the call left it
    op,         \* the last call: "init", "add", "reduce", "finalize"
    exc,        \* the exception the last call raised, "none" if it returned
    calls,      \* number of calls made; the next trade's timestamp
    ledger,     \* BaseStrategy: [position, trades, pnl], each keyed by ticker
    pre_ledger, \* the ledger as it was before the last call
    ticker,     \* the ticker argument of the last BaseStrategy call
    strategy,   \* whose bar loop runs: "ORB", "LinReg", "backtest" or "none"
    sim,        \* simulate_intraday: its arguments, locals and position in the code
    df,         \* intraday_df: its length and what has been read of rows i-1, i, i+1
    app,        \* BacktesterApp: data, skip, ticker_event
    run,        \* the driver loop: its position, reqID, results
    broker,     \* the requests the broker has received and what it still sends
    fn          \* a pure function called on its own: name, argument, result

posVars == <<pos, pre, hist>>
callVars == <<trade, op, exc, calls>>
baseVars == <<ledger, pre_ledger, ticker>>
simVars == <<strategy, sim, df>>
drvVars == <<app, run, broker>>
fnVars == <<fn>>
vars == <<posVars, callVars, baseVars, simVars, drvVars, fnVars>>

NoTrade == Trade_init("AAA", RZero, 0, "B", 0, "")
NoPosition == Position_init("AAA", RZero, 0, "B", 0)
NoHist == [open_price |-> RZero, open_volume |-> 0, open_side |-> "B",
           added_volume |-> 0, added_notional |-> RZero, adds |-> 0, reduces |-> 0,
           signed |-> 0]

\* The volume of a position or of a trade, signed by its side: B positive,
\* S negative
SignedVolume(p) == IF p.side = "B" THEN p.volume ELSE -p.volume

\* BaseStrategy.__init__: three empty dicts
EmptyDict == [t \in {} |-> None]
EmptyLedger == [position |-> EmptyDict, trades |-> EmptyDict, pnl |-> EmptyDict]

TradeInputs(ts) ==
    {Trade_init(c, p, v, s, ts, "fill") :
        c \in Symbols, p \in Prices, v \in Volumes, s \in Sides}

\* Before simulate_intraday is called
IdleSim == [pc |-> "idle", exc |-> "none", ticker |-> "AAA", date |-> 0, volume |-> 1,
            i |-> 0, position |-> None, trades_log |-> <<>>, final_return |-> RZero,
            hi_price |-> 0, lo_price |-> 0, av_vol |-> None, volume_threshold |-> RZero,
            lr_med |-> None, lr_long |-> None, sigma_med |-> None, sigma_long |-> None,
            data |-> EmptyDict, open_price |-> EmptyStr, direction |-> "", date_stats |-> None]
\* closes: the Close column when the rows are given up front, else <<>>
NoDf == [n |-> 0, prev |-> NoBar, cur |-> NoBar, next |-> NoBar, closes |-> <<>>]

\* No pure function has been called
NoFn == [name |-> "none", arg |-> None, out |-> EmptyDict, exc |-> "none"]

NoSim ==
    /\ strategy = "none"
    /\ sim = IdleSim
    /\ df = NoDf

\* BacktesterApp.__init__: data = {}, skip = False, ticker_event clear
NewApp == [data |-> EmptyDict, skip |-> FALSE, ticker_event |-> FALSE]
IdleRun == [driver |-> "none", pc |-> "idle", exc |-> "none", items |-> 0, item |-> 1,
            reqID |-> 0, results |-> EmptyDict, reads |-> EmptyDict]
NoBroker == [reqs |-> EmptyDict, notices |-> 0]

NoDriver ==
    /\ app = NewApp
    /\ run = IdleRun
    /\ broker = NoBroker

CallInit ==
    /\ trade = NoTrade
    /\ op = "init"
    /\ exc = "none"
    /\ calls = 0

\* ======================================================================
\* A Position object driven directly: Position.add / Position.reduce
\* ======================================================================
PosInit ==
    /\ \E p \in Prices, v \in Volumes, s \in Sides :
         /\ pos = Position_init("AAA", p, v, s, 0)
         /\ hist = [NoHist EXCEPT !.open_price = p, !.open_volume = v, !.open_side = s]
    /\ pre = pos
    /\ CallInit
    /\ ledger = EmptyLedger
    /\ pre_ledger = EmptyLedger
    /\ ticker = "AAA"
    /\ fn = NoFn
    /\ NoSim
    /\ NoDriver

\* pos.add(t) for a fresh Trade t
CallAdd ==
    /\ calls < MaxCalls
    /\ \E t \in TradeInputs(calls + 1) :
         LET r == Position_add(pos, t) IN
         /\ pos' = r.self
         /\ trade' = r.trade
         /\ exc' = r.exc
         /\ hist' = IF r.exc = "none"
                    THEN [hist EXCEPT !.added_volume = @ + t.volume,
                                      !.added_notional = RAdd(@, RMulI(t.price, t.volume)),
                                      !.adds = @ + 1,
                                      !.signed = @ + SignedVolume(t)]
                    ELSE hist
    /\ pre' = pos
    /\ op' = "add"
    /\ calls' = calls + 1
    /\ UNCHANGED <<fnVars, drvVars, baseVars, simVars>>

\* pos.reduce(t) for a fresh Trade t
CallReduce ==
    /\ calls < MaxCalls
    /\ \E t \in TradeInputs(calls + 1) :
         LET r == Position_reduce(pos, t) IN
         /\ pos' = r.self
         /\ trade' = r.trade
         /\ exc' = r.exc
         /\ hist' = IF r.exc = "none"
                    THEN [hist EXCEPT !.reduces = @ + 1, !.signed = @ + SignedVolume(t)]
                    ELSE hist
    /\ pre' = pos
    /\ op' = "reduce"
    /\ calls' = calls + 1
    /\ UNCHANGED <<fnVars, drvVars, baseVars, simVars>>

PosNext == CallAdd \/ CallReduce

SpecPos == PosInit /\ [][PosNext]_vars

\* ======================================================================
\* The BaseStrategy ledger: add_position / reduce_position / finalize_positions
\* ======================================================================
\* The constructor leaves the three dicts empty; a caller registers a ticker
\* by storing None / [] under it (the state add_position tests for).  No code
\* of the repository stores a key in self.pnl: LinRegSigmaStrategy.prepare_data
\* registers positions and trades only, so pnl is registered like the others
\* or left empty.
BaseInit ==
    /\ \E registered \in SUBSET Symbols, with_pnl \in BOOLEAN :
         ledger = [position |-> [t \in registered |-> None],
                   trades |-> [t \in registered |-> <<>>],
                   pnl |-> [t \in (IF with_pnl THEN registered ELSE {}) |-> <<>>]]
    /\ pre_ledger = ledger
    /\ ticker = "AAA"
    /\ fn = NoFn
    /\ CallInit
    /\ pos = NoPosition
    /\ pre = NoPosition
    /\ hist = NoHist
    /\ NoSim
    /\ NoDriver

CallAddPosition ==
    /\ calls < MaxCalls
    /\ \E t \in TradeInputs(calls + 1), tk \in Symbols :
         LET r == add_position(ledger, t, tk) IN
         /\ ledger' = r.self
         /\ trade' = r.trade
         /\ exc' = r.exc
         /\ ticker' = tk
    /\ pre_ledger' = ledger
    /\ op' = "add"
    /\ calls' = calls + 1
    /\ UNCHANGED <<fnVars, drvVars, posVars, simVars>>

CallReducePosition ==
    /\ calls < MaxCalls
    /\ \E t \in TradeInputs(calls + 1), tk \in Symbols :
         LET r == reduce_position(ledger, t, tk) IN
         /\ ledger' = r.self
         /\ trade' = r.trade
         /\ exc' = r.exc
         /\ ticker' = tk
    /\ pre_ledger' = ledger
    /\ op' = "reduce"
    /\ calls' = calls + 1
    /\ UNCHANGED <<fnVars, drvVars, posVars, simVars>>

\* finalize_positions(): the last daily close of each ticker is an input,
\* kept in fn.arg
CallFinalize ==
    /\ calls < MaxCalls
    /\ \E with_data \in SUBSET Symbols : \E final_price \in [with_data -> Prices] :
         LET r == finalize_positions(ledger, final_price, calls + 1) IN
         /\ ledger' = r.self
         /\ exc' = r.exc
         /\ fn' = [NoFn EXCEPT !.name = "finalize_positions", !.arg = final_price]
    /\ pre_ledger' = ledger
    /\ op' = "finalize"
    /\ calls' = calls + 1
    /\ UNCHANGED <<drvVars, posVars, trade, ticker, simVars>>

\* LinRegSigmaStrategy.prepare_data(app, tickers): its first statement,
\* self.positions[ticker] = [], names an attribute the object does not have
\* (it has self.position): AttributeError before self.trades[ticker] = [] is
\* reached, unless tickers is empty
CallPrepareData ==
    /\ calls < MaxCalls
    /\ \E tickers \in SUBSET Symbols :
         LET r == prepare_data(ledger, tickers) IN
         /\ ledger' = r.self
         /\ exc' = r.exc
    /\ pre_ledger' = ledger
    /\ op' = "prepare_data"
    /\ calls' = calls + 1
    /\ UNCHANGED <<fnVars, drvVars, posVars, trade, ticker, simVars>>

BaseNext == CallAddPosition \/ CallReducePosition \/ CallFinalize \/ CallPrepareData

SpecBase == BaseInit /\ [][BaseNext]_vars

\* ======================================================================
\* simulate_intraday of OpenRangeBreakout and of LinRegSigmaStrategy:
\* one call on one ticker and one date
\* ======================================================================
\* Bar prices.  Around a first bar at 100 they separate the thresholds of
\* OpenRangeBreakout: 95 <= 0.95 * 100, 100 < 102 < 1.05 * 100 <= 105.
PriceLevels == {95, 100, 102, 105}
BarVolumes == {2, 1000001}
\* daily_row["AvVol"]: None when missing or NaN
AvVols == {None, RInt(39), RInt(78)}

Bars ==
    {b \in [Open : PriceLevels, High : PriceLevels, Low : PriceLevels,
            Close : PriceLevels, Volume : BarVolumes] :
        b.Low <= b.Open /\ b.Low <= b.Close /\ b.Open <= b.High /\ b.Close <= b.High}

\* Of row i - 1 the loop reads the Volume, of row i + 1 the slippage model
\* reads Open, High and Low; the rest of row i + 1 is read when it is row i.
PrevRow(bar) == IF bar = NoBar THEN NoBar ELSE [Volume |-> bar.Volume]
NextRows == {[Open |-> b.Open, High |-> b.High, Low |-> b.Low] : b \in Bars}
RowsAfter(next) ==
    IF next = NoBar THEN Bars
    ELSE {b \in Bars : b.Open = next.Open /\ b.High = next.High /\ b.Low = next.Low}

\* LinRegSigmaStrategy reads only bar["Close"]: one bar per close, a close
\* of 0 included
ClosePrices == PriceLevels \cup {0}
CloseBars == {Bar(c, c, c, c, 2) : c \in ClosePrices}

\* intraday_df.iloc[i] of LinRegSigmaStrategy.simulate_intraday
LR_Rows(d, i) ==
    IF d.closes = <<>> THEN CloseBars
    ELSE {Bar(d.closes[i + 1], d.closes[i + 1], d.closes[i + 1], d.closes[i + 1], 2)}

LrValues == {None} \cup {RInt(p) : p \in PriceLevels}
SigmaValues == {None, RInt(0), RInt(2)}

\* self.position / self.trades of the strategy object when simulate_intraday
\* is called: no key (as the constructor leaves them), None / [] stored by the
\* caller, or a position of volume 1 still open from an earlier date.
SimLedgers ==
    {EmptyLedger,
     [position |-> [t \in {"AAA"} |-> None], trades |-> [t \in {"AAA"} |-> <<>>],
      pnl |-> EmptyDict]}
    \cup {[position |-> [t \in {"AAA"} |-> Position_init("AAA", RInt(p), 1, sd, 0)],
           trades |-> [t \in {"AAA"} |-> <<Trade_init("AAA", RInt(p), 1, sd, 0, "Open")>>],
           pnl |-> EmptyDict] : p \in PriceLevels, sd \in Sides}

SimInit ==
    /\ \/ strategy \in {"ORB", "backtest"} /\ ledger = EmptyLedger
       \/ strategy = "LinReg" /\ ledger \in SimLedgers
    /\ sim = IdleSim
    /\ df = NoDf
    /\ pre_ledger = ledger
    /\ ticker = "AAA"
    /\ fn = NoFn
    /\ CallInit
    /\ pos = NoPosition
    /\ pre = NoPosition
    /\ hist = NoHist
    /\ NoDriver

\* OpenRangeBreakout.simulate_intraday up to the loop: the length check, the
\* first bar's high and low, the volume threshold
ORB_Begin ==
    /\ strategy = "ORB"
    /\ sim.pc = "idle"
    /\ \E n \in 0..MaxBars, av_vol \in AvVols :
         IF n < 2
         THEN /\ sim' = [sim EXCEPT !.pc = "returned", !.date = 1, !.final_return = RZero]
              /\ df' = [df EXCEPT !.n = n]
         ELSE \E bar0 \in Bars :
              /\ sim' = [sim EXCEPT !.pc = "loop", !.date = 1, !.i = 1,
                                    !.hi_price = bar0.High, !.lo_price = bar0.Low,
                                    !.av_vol = av_vol,
                                    !.volume_threshold = ORB_volume_threshold(av_vol),
                                    !.position = None, !.final_return = RZero]
              /\ df' = [df EXCEPT !.n = n, !.prev = NoBar, !.cur = bar0, !.next = NoBar]
    /\ UNCHANGED <<fnVars, drvVars, posVars, callVars, baseVars, strategy>>

\* One iteration of its loop.  Row i is read now (its Open, High and Low are
\* known if the slippage model has read them); row i + 1 is read when an
\* entry prices itself on it.
ORB_Bar ==
    /\ strategy = "ORB"
    /\ sim.pc = "loop"
    /\ sim.i < df.n
    /\ \E cur \in RowsAfter(df.next) :
         LET w0 == [df EXCEPT !.prev = PrevRow(df.cur), !.cur = cur, !.next = NoBar]
             reads_next == ORB_entry_signal(sim, w0) # "none" /\ sim.i + 1 < df.n
         IN  \E nxt \in (IF reads_next THEN NextRows ELSE {NoBar}) :
               /\ df' = [w0 EXCEPT !.next = nxt]
               /\ sim' = ORB_iteration(sim, df')
    /\ UNCHANGED <<fnVars, drvVars, posVars, callVars, baseVars, strategy>>

\* return final_return, after a break or when the rows are exhausted
ORB_Return ==
    /\ strategy = "ORB"
    /\ sim.pc = "break" \/ (sim.pc = "loop" /\ sim.i >= df.n)
    /\ sim' = [sim EXCEPT !.pc = "returned"]
    /\ UNCHANGED <<fnVars, drvVars, posVars, callVars, baseVars, strategy, df>>

\* LinRegSigmaStrategy.simulate_intraday up to the loop: the four kwargs
LR_Begin ==
    /\ strategy = "LinReg"
    /\ sim.pc = "idle"
    /\ \E n \in 0..MaxBars, lm \in LrValues, ll \in LrValues,
          sm \in SigmaValues, sl \in SigmaValues :
         /\ sim' = [sim EXCEPT !.pc = "loop", !.date = 1, !.i = 0, !.final_return = RZero,
                               !.lr_med = lm, !.lr_long = ll,
                               !.sigma_med = sm, !.sigma_long = sl]
         /\ df' = [df EXCEPT !.n = n]
    /\ UNCHANGED <<fnVars, drvVars, posVars, callVars, ledger, ticker, strategy>>
    /\ pre_ledger' = ledger

\* One iteration of its loop on row i
LR_Bar ==
    /\ strategy = "LinReg"
    /\ sim.pc = "loop"
    /\ sim.i < df.n
    /\ \E cur \in LR_Rows(df, sim.i) :
         /\ df' = [df EXCEPT !.prev = PrevRow(df.cur), !.cur = cur, !.next = NoBar]
         /\ LET r == LR_iteration(sim, ledger, df') IN
              /\ sim' = r.s
              /\ ledger' = r.self
    /\ UNCHANGED <<fnVars, drvVars, posVars, callVars, pre_ledger, ticker, strategy>>

\* return final_return
LR_Return ==
    /\ strategy = "LinReg"
    /\ sim.pc = "break" \/ (sim.pc = "loop" /\ sim.i >= df.n)
    /\ sim' = [sim EXCEPT !.pc = "returned"]
    /\ UNCHANGED <<fnVars, drvVars, posVars, callVars, baseVars, strategy, df>>

\* backtest() of ib_orb_bktest_initial.py on one date and ticker, from the
\* first bar of a non-empty intraday_df.  data is the dict the caller passes:
\* the script passes deepcopy(app.data), keyed by request id (no ticker key);
\* keyed by ticker it holds the day's AvVol.
BT_Data == {EmptyDict} \cup {[t \in {"AAA"} |-> a] : a \in AvVols \ {None}}

BT_Begin ==
    /\ strategy = "backtest"
    /\ sim.pc = "idle"
    /\ \E n \in 1..MaxBars, data \in BT_Data, bar0 \in Bars :
         /\ sim' = [sim EXCEPT !.pc = "loop", !.date = 1, !.i = 1, !.data = data,
                               !.hi_price = bar0.High, !.lo_price = bar0.Low,
                               !.open_price = EmptyStr, !.direction = "",
                               !.date_stats = RZero]
         /\ df' = [df EXCEPT !.n = n, !.prev = NoBar, !.cur = bar0, !.next = NoBar]
    /\ UNCHANGED <<fnVars, drvVars, posVars, callVars, baseVars, strategy>>

\* One iteration of its bar loop: prev_bar and current_bar are rows i - 1 and
\* i, row i + 1 is read when an entry prices itself on it
BT_Bar ==
    /\ strategy = "backtest"
    /\ sim.pc = "loop"
    /\ sim.i < df.n
    /\ \E cur \in RowsAfter(df.next) :
         LET w0 == [df EXCEPT !.prev = PrevRow(df.cur), !.cur = cur, !.next = NoBar]
             reads_next == /\ sim.i < df.n - 1
                           /\ HasKey(sim.data, sim.ticker)
                           /\ BT_entry_signal(sim, w0) # "none"
         IN  \E nxt \in (IF reads_next THEN NextRows ELSE {NoBar}) :
               /\ df' = [w0 EXCEPT !.next = nxt]
               /\ sim' = BT_iteration(sim, df')
    /\ UNCHANGED <<fnVars, drvVars, posVars, callVars, baseVars, strategy>>

\* the bar loop is over: reqID += 1
BT_Return ==
    /\ strategy = "backtest"
    /\ sim.pc = "break" \/ (sim.pc = "loop" /\ sim.i >= df.n)
    /\ sim' = [sim EXCEPT !.pc = "returned"]
    /\ UNCHANGED <<fnVars, drvVars, posVars, callVars, baseVars, strategy, df>>

SimNext ==
    \/ ORB_Begin \/ ORB_Bar \/ ORB_Return
    \/ LR_Begin \/ LR_Bar \/ LR_Return
    \/ BT_Begin \/ BT_Bar \/ BT_Return

SpecSim == SimInit /\ [][SimNext]_vars

\* ======================================================================
\* LinRegSigmaStrategy.simulate_intraday on a given sequence of closes, with
\* the band values medium 100 +/- 2, long 99 +/- 3, started FLAT
\* ======================================================================
ExampleCloses == <<105, 95, 94, 100>>
\* The closes of the example, and one close beyond each of the entry bands
\* (below 99 - 2 * 3, above 99 + 2 * 3)
ExamplePrices == {ExampleCloses[k] : k \in 1..Len(ExampleCloses)} \cup {92, 106}

ExampleInit ==
    /\ strategy = "LinReg"
    /\ ledger = [position |-> [t \in {"AAA"} |-> None],
                 trades |-> [t \in {"AAA"} |-> <<>>], pnl |-> EmptyDict]
    /\ sim = IdleSim
    /\ \E closes \in [1..Len(ExampleCloses) -> ExamplePrices] :
          df = [NoDf EXCEPT !.n = Len(closes), !.closes = closes]
    /\ pre_ledger = ledger
    /\ ticker = "AAA"
    /\ fn = NoFn
    /\ CallInit
    /\ pos = NoPosition
    /\ pre = NoPosition
    /\ hist = NoHist
    /\ NoDriver

\* simulate_intraday(..., lr_med=100, sigma_med=2, lr_long=99, sigma_long=3)
Example_Begin ==
    /\ strategy = "LinReg"
    /\ sim.pc = "idle"
    /\ sim' = [sim EXCEPT !.pc = "loop", !.date = 1, !.i = 0, !.final_return = RZero,
                          !.lr_med = RInt(100), !.sigma_med = RInt(2),
                          !.lr_long = RInt(99), !.sigma_long = RInt(3)]
    /\ UNCHANGED <<fnVars, drvVars, posVars, callVars, baseVars, strategy, df>>

ExampleNext == Example_Begin \/ LR_Bar \/ LR_Return

SpecExample == ExampleInit /\ [][ExampleNext]_vars

\* ======================================================================
\* The backtest driver loop and the broker callbacks: Backtester.run /
\* OpenRangeBreakout.run_strategy on the driver thread, BacktesterApp.error /
\* historicalData / historicalDataEnd on the EClient.run thread
\* ======================================================================
\* d[k] = v
Put(d, k, v) == [x \in DOMAIN d \cup {k} |-> IF x = k THEN v ELSE d[x]]

\* BacktesterApp.error(reqId, errorCode, ...): skip unless the code is 2176,
\* and ticker_event.set() whatever the reqId and the code
error(a, reqId, errorCode) ==
    [a EXCEPT !.skip = IF errorCode # 2176 THEN TRUE ELSE @,
              !.ticker_event = TRUE]

\* BacktesterApp.historicalData(reqId, bar): a one-row frame or one row more;
\* a buffer is [n: its rows, indexed: set_index / sort_index done]
historicalData(a, reqId) ==
    [a EXCEPT !.data = IF ~HasKey(a.data, reqId)
                       THEN Put(a.data, reqId, [n |-> 1, indexed |-> FALSE])
                       ELSE Put(a.data, reqId, [a.data[reqId] EXCEPT !.n = @ + 1])]

\* BacktesterApp.historicalDataEnd(reqId, start, end)
historicalDataEnd(a, reqId) ==
    [a EXCEPT !.data = IF HasKey(a.data, reqId) /\ a.data[reqId].n > 0
                       THEN Put(a.data, reqId, [a.data[reqId] EXCEPT !.indexed = TRUE])
                       ELSE a.data,
              !.skip = FALSE,
              !.ticker_event = TRUE]

\* reqID = 1000 in Backtester.run, 10000 in OpenRangeBreakout.run_strategy
FirstReqID(driver) == IF driver = "Backtester.run" THEN 1000 ELSE 10000

\* How the broker answers a request: bars and historicalDataEnd, or an error
\* for that reqId; warning 2176 may come with either
Answers ==
    {[kind |-> "data", bars_left |-> b, warn |-> w, done |-> FALSE] :
        b \in 0..MaxData, w \in BOOLEAN}
    \cup {[kind |-> "error", bars_left |-> 0, warn |-> w, done |-> FALSE] : w \in BOOLEAN}

\* The requests the broker has not finished
Outstanding == {r \in DOMAIN broker.reqs : ~broker.reqs[r].done}

\* What the simulate_intraday call of the loop does with a non-empty frame:
\* Backtester.run passes two positional arguments to a method that takes four
\* (TypeError); run_strategy's call returns, or raises AttributeError when a
\* position was opened (which takes at least two bars)
SimulateOutcomes(driver, buf) ==
    IF driver = "Backtester.run" THEN {"TypeError"}
    ELSE IF buf.n >= 2 THEN {"returned", "AttributeError"}
    ELSE {"returned"}

\* The end of a loop iteration: reqID += 1 and the next (date, ticker)
NextItem(r) ==
    [r EXCEPT !.reqID = @ + 1, !.item = @ + 1,
              !.pc = IF r.item + 1 > r.items THEN "done" ELSE "clear"]

DriverInit ==
    /\ app = NewApp
    /\ broker = NoBroker
    /\ \E driver \in {"Backtester.run", "run_strategy"}, items \in 1..MaxItems :
         run = [IdleRun EXCEPT !.driver = driver, !.items = items, !.pc = "clear",
                               !.reqID = FirstReqID(driver)]
    /\ NoSim
    /\ ledger = EmptyLedger
    /\ pre_ledger = EmptyLedger
    /\ ticker = "AAA"
    /\ fn = NoFn
    /\ CallInit
    /\ pos = NoPosition
    /\ pre = NoPosition
    /\ hist = NoHist

\* app.ticker_event.clear()
RunClear ==
    /\ run.pc = "clear"
    /\ app' = [app EXCEPT !.ticker_event = FALSE]
    /\ run' = [run EXCEPT !.pc = "request"]
    /\ UNCHANGED <<fnVars, posVars, callVars, baseVars, simVars, broker>>

\* app.reqHistoricalData(reqId=reqID, ...)
RunRequest ==
    /\ run.pc = "request"
    /\ \E answer \in Answers :
         broker' = [broker EXCEPT !.reqs = Put(@, run.reqID, answer)]
    /\ run' = [run EXCEPT !.pc = "wait"]
    /\ UNCHANGED <<fnVars, posVars, callVars, baseVars, simVars, app>>

\* app.ticker_event.wait()
RunWait ==
    /\ run.pc = "wait"
    /\ app.ticker_event
    /\ run' = [run EXCEPT !.pc = "check"]
    /\ UNCHANGED <<fnVars, posVars, callVars, baseVars, simVars, app, broker>>

\* if app.skip: app.skip = False; results[date][ticker] = 0; reqID += 1; continue
RunCheckSkip ==
    /\ run.pc = "check"
    /\ IF app.skip
       THEN /\ app' = [app EXCEPT !.skip = FALSE]
            /\ run' = NextItem([run EXCEPT !.results = Put(@, run.item, "0")])
       ELSE /\ app' = app
            /\ run' = [run EXCEPT !.pc = "sleep"]
    /\ UNCHANGED <<fnVars, posVars, callVars, baseVars, simVars, broker>>

\* time.sleep(...)
RunSleep ==
    /\ run.pc = "sleep"
    /\ run' = [run EXCEPT !.pc = "read"]
    /\ UNCHANGED <<fnVars, posVars, callVars, baseVars, simVars, app, broker>>

\* app.data.get(reqID, None) and the rest of the iteration; reads records
\* what the get returned and whether the broker had finished that request
RunRead ==
    /\ run.pc = "read"
    /\ LET buf == IF HasKey(app.data, run.reqID) THEN app.data[run.reqID] ELSE None
           r == [run EXCEPT !.reads = Put(@, run.reqID,
                        [intraday_data |-> buf,
                         done |-> broker.reqs[run.reqID].done])]
       IN  IF buf = None
           THEN run' = NextItem([r EXCEPT !.results = Put(@, run.item, "0")])
           ELSE \E outcome \in SimulateOutcomes(run.driver, buf) :
                  run' = IF outcome = "returned"
                         THEN NextItem([r EXCEPT !.results = Put(@, run.item, "pnl")])
                         ELSE [r EXCEPT !.pc = "raised", !.exc = outcome]
    /\ UNCHANGED <<fnVars, posVars, callVars, baseVars, simVars, app, broker>>

\* The callback thread delivers one bar of a request
CbHistoricalData ==
    /\ \E r \in Outstanding :
         /\ broker.reqs[r].kind = "data"
         /\ broker.reqs[r].bars_left > 0
         /\ app' = historicalData(app, r)
         /\ broker' = [broker EXCEPT !.reqs[r].bars_left = @ - 1]
    /\ UNCHANGED <<fnVars, posVars, callVars, baseVars, simVars, run>>

\* ... the end of a request's bars
CbHistoricalDataEnd ==
    /\ \E r \in Outstanding :
         /\ broker.reqs[r].kind = "data"
         /\ broker.reqs[r].bars_left = 0
         /\ app' = historicalDataEnd(app, r)
         /\ broker' = [broker EXCEPT !.reqs[r].done = TRUE]
    /\ UNCHANGED <<fnVars, posVars, callVars, baseVars, simVars, run>>

\* ... the broker's error for a request (code 162, 200, ...)
CbError ==
    /\ \E r \in Outstanding :
         /\ broker.reqs[r].kind = "error"
         /\ app' = error(app, r, 162)
         /\ broker' = [broker EXCEPT !.reqs[r].done = TRUE]
    /\ UNCHANGED <<fnVars, posVars, callVars, baseVars, simVars, run>>

\* ... warning 2176 for a request, which does not end it
CbWarning ==
    /\ \E r \in Outstanding :
         /\ broker.reqs[r].warn
         /\ app' = error(app, r, 2176)
         /\ broker' = [broker EXCEPT !.reqs[r].warn = FALSE]
    /\ UNCHANGED <<fnVars, posVars, callVars, baseVars, simVars, run>>

\* ... a connection notice, error(-1, 2104, ...), at any time
CbNotice ==
    /\ broker.notices < MaxNotices
    /\ app' = error(app, -1, 2104)
    /\ broker' = [broker EXCEPT !.notices = @ + 1]
    /\ UNCHANGED <<fnVars, posVars, callVars, baseVars, simVars, run>>

DriverNext ==
    \/ RunClear \/ RunRequest \/ RunWait \/ RunCheckSkip \/ RunSleep \/ RunRead
    \/ CbHistoricalData \/ CbHistoricalDataEnd \/ CbError \/ CbWarning \/ CbNotice

SpecDriver == DriverInit /\ [][DriverNext]_vars

\* ======================================================================
\* The request loop of backtest() in ib_orb_bktest_initial.py on the main
\* thread, TradeApp.error / historicalData / historicalDataEnd on the
\* connection thread.  The k-th iteration issues the k-th request, so
\* broker.reqs is keyed by the item and holds the reqId used.
\* ======================================================================
\* TradeApp.error(reqId, errorCode, ...): skip and ticker_event.set() for
\* every reqId but -1, whatever the code
TradeApp_error(a, reqId, errorCode) ==
    IF reqId # -1 THEN [a EXCEPT !.skip = TRUE, !.ticker_event = TRUE] ELSE a

\* TradeApp.historicalData(reqId, bar)
TradeApp_historicalData(a, reqId) ==
    [a EXCEPT !.data = IF ~HasKey(a.data, reqId)
                       THEN Put(a.data, reqId, [n |-> 1, indexed |-> FALSE])
                       ELSE Put(a.data, reqId, [a.data[reqId] EXCEPT !.n = @ + 1])]

\* TradeApp.historicalDataEnd(reqId, start, end).  A frame that an earlier
\* historicalDataEnd of the same reqId has indexed has no "Date" value in its
\* first row: `" " in date_str` raises before skip and ticker_event are set.
TradeApp_historicalDataEnd(a, reqId) ==
    IF HasKey(a.data, reqId) /\ a.data[reqId].n > 0 /\ a.data[reqId].indexed
    THEN a
    ELSE [a EXCEPT !.data = IF HasKey(a.data, reqId) /\ a.data[reqId].n > 0
                            THEN Put(a.data, reqId, [a.data[reqId] EXCEPT !.indexed = TRUE])
                            ELSE a.data,
                   !.skip = FALSE,
                   !.ticker_event = TRUE]

\* How the broker answers the request of an item: bars and historicalDataEnd,
\* or an error for that reqId; warning 2176 may come with either.  bars and
\* warned keep what the answer was.
ScriptAnswers(reqId) ==
    {[reqId |-> reqId, kind |-> "data", bars |-> b, bars_left |-> b, warned |-> w,
      warn |-> w, done |-> FALSE] : b \in 0..MaxData + 1, w \in BOOLEAN}
    \cup {[reqId |-> reqId, kind |-> "error", bars |-> 0, bars_left |-> 0, warned |-> w,
           warn |-> w, done |-> FALSE] : w \in BOOLEAN}

\* What the bar loop does with a non-empty frame: with fewer than three rows
\* it ends at once; otherwise data[ticker] raises KeyError when data is keyed
\* by request id, as the script passes it
BacktestOutcomes(buf) ==
    IF buf.n >= 3 THEN {"returned", "KeyError"} ELSE {"zero"}

\* `continue`: the next ticker of top_gap_by_date
ScriptContinue(r) ==
    [r EXCEPT !.item = @ + 1,
              !.pc = IF r.item + 1 > r.items THEN "done" ELSE "clear"]

ScriptInit ==
    /\ app = NewApp
    /\ broker = NoBroker
    /\ \E items \in 1..MaxItems :
         run = [IdleRun EXCEPT !.driver = "backtest", !.items = items, !.pc = "clear",
                               !.reqID = 1000]
    /\ NoSim
    /\ ledger = EmptyLedger
    /\ pre_ledger = EmptyLedger
    /\ ticker = "AAA"
    /\ fn = NoFn
    /\ CallInit
    /\ pos = NoPosition
    /\ pre = NoPosition
    /\ hist = NoHist

\* ticker_event.clear()
ScriptClear ==
    /\ run.driver = "backtest"
    /\ run.pc = "clear"
    /\ app' = [app EXCEPT !.ticker_event = FALSE]
    /\ run' = [run EXCEPT !.pc = "request"]
    /\ UNCHANGED <<fnVars, posVars, callVars, baseVars, simVars, broker>>

\* histData(reqID, usTechStk(ticker), end_datetime, '1 D', '5 mins')
ScriptRequest ==
    /\ run.driver = "backtest"
    /\ run.pc = "request"
    /\ \E answer \in ScriptAnswers(run.reqID) :
         broker' = [broker EXCEPT !.reqs = Put(@, run.item, answer)]
    /\ run' = [run EXCEPT !.pc = "wait"]
    /\ UNCHANGED <<fnVars, posVars, callVars, baseVars, simVars, app>>

\* ticker_event.wait()
ScriptWait ==
    /\ run.driver = "backtest"
    /\ run.pc = "wait"
    /\ app.ticker_event
    /\ run' = [run EXCEPT !.pc = "check"]
    /\ UNCHANGED <<fnVars, posVars, callVars, baseVars, simVars, app, broker>>

\* if app.skip: continue  (the reqID += 1 after it is never executed)
ScriptCheckSkip ==
    /\ run.driver = "backtest"
    /\ run.pc = "check"
    /\ run' = IF app.skip THEN ScriptContinue(run) ELSE [run EXCEPT !.pc = "sleep"]
    /\ UNCHANGED <<fnVars, posVars, callVars, baseVars, simVars, app, broker>>

\* time.sleep(3.5)
ScriptSleep ==
    /\ run.driver = "backtest"
    /\ run.pc = "sleep"
    /\ run' = [run EXCEPT !.pc = "read"]
    /\ UNCHANGED <<fnVars, posVars, callVars, baseVars, simVars, app, broker>>

\* app.data.get(reqID, pd.DataFrame()) and the rest of the iteration
ScriptRead ==
    /\ run.driver = "backtest"
    /\ run.pc = "read"
    /\ LET buf == IF HasKey(app.data, run.reqID) THEN app.data[run.reqID] ELSE None
           r == [run EXCEPT !.reads = Put(@, run.item,
                        [intraday_data |-> buf, done |-> broker.reqs[run.item].done])]
       IN  IF buf = None
           THEN run' = ScriptContinue([r EXCEPT !.reqID = @ + 1])
           ELSE \E outcome \in BacktestOutcomes(buf) :
                  run' = IF outcome = "KeyError"
                         THEN [r EXCEPT !.results = Put(@, run.item, "0"),
                                        !.pc = "raised", !.exc = outcome]
                         ELSE ScriptContinue(
                                [r EXCEPT !.results = Put(@, run.item,
                                              IF outcome = "zero" THEN "0" ELSE "pnl"),
                                          !.reqID = @ + 1])
    /\ UNCHANGED <<fnVars, posVars, callVars, baseVars, simVars, app, broker>>

\* The connection thread delivers one bar of a request
ScriptCbHistoricalData ==
    /\ run.driver = "backtest"
    /\ \E k \in Outstanding :
         /\ broker.reqs[k].kind = "data"
         /\ broker.reqs[k].bars_left > 0
         /\ app' = TradeApp_historicalData(app, broker.reqs[k].reqId)
         /\ broker' = [broker EXCEPT !.reqs[k].bars_left = @ - 1]
    /\ UNCHANGED <<fnVars, posVars, callVars, baseVars, simVars, run>>

\* ... the end of a request's bars
ScriptCbHistoricalDataEnd ==
    /\ run.driver = "backtest"
    /\ \E k \in Outstanding :
         /\ broker.reqs[k].kind = "data"
         /\ broker.reqs[k].bars_left = 0
         /\ app' = TradeApp_historicalDataEnd(app, broker.reqs[k].reqId)
         /\ broker' = [broker EXCEPT !.reqs[k].done = TRUE]
    /\ UNCHANGED <<fnVars, posVars, callVars, baseVars, simVars, run>>

\* ... the broker's error for a request (code 162, 200, ...)
ScriptCbError ==
    /\ run.driver = "backtest"
    /\ \E k \in Outstanding :
         /\ broker.reqs[k].kind = "error"
         /\ app' = TradeApp_error(app, broker.reqs[k].reqId, 162)
         /\ broker' = [broker EXCEPT !.reqs[k].done = TRUE]
    /\ UNCHANGED <<fnVars, posVars, callVars, baseVars, simVars, run>>

\* ... warning 2176 for a request, which does not end it
ScriptCbWarning ==
    /\ run.driver = "backtest"
    /\ \E k \in Outstanding :
         /\ broker.reqs[k].warn
         /\ app' = TradeApp_error(app, broker.reqs[k].reqId, 2176)
         /\ broker' = [broker EXCEPT !.reqs[k].warn = FALSE]
    /\ UNCHANGED <<fnVars, posVars, callVars, baseVars, simVars, run>>

\* ... a connection notice, error(-1, 2104, ...), at any time
ScriptCbNotice ==
    /\ run.driver = "backtest"
    /\ broker.notices < MaxNotices
    /\ app' = TradeApp_error(app, -1, 2104)
    /\ broker' = [broker EXCEPT !.notices = @ + 1]
    /\ UNCHANGED <<fnVars, posVars, callVars, baseVars, simVars, run>>

ScriptNext ==
    \/ ScriptClear \/ ScriptRequest \/ ScriptWait \/ ScriptCheckSkip \/ ScriptSleep
    \/ ScriptRead
    \/ ScriptCbHistoricalData \/ ScriptCbHistoricalDataEnd \/ ScriptCbError
    \/ ScriptCbWarning \/ ScriptCbNotice

SpecScript == ScriptInit /\ [][ScriptNext]_vars

\* ======================================================================
\* The trade universe by date: OpenRangeBreakout.get_trade_universe_by_date
\* and topGap of ib_orb_bktest_initial.py, called on a daily dataset
\* ======================================================================
\* A daily dataset is [tickers, rows]: tickers is the ticker list in request
\* order, rows[k].gap the "Gap" column of the k-th ticker's frame as a
\* function from its dates (after dropna) to the gap, rows[k].key whether the
\* dict has a key for that ticker.
Dates == {1, 2}
GapValues == {1, 2, 3}
NoFrame == [key |-> FALSE, gap |-> [d \in {} |-> 0]]
Frames(dateSets) ==
    {NoFrame} \cup {[key |-> TRUE, gap |-> g] : g \in UNION {[ds -> GapValues] : ds \in dateSets}}

\* Three tickers over two dates, or six tickers on one date (more than K = 5)
DailyDatasets ==
    {[tickers |-> <<"AAA", "BBB", "CCC">>, rows |-> r] :
        r \in [1..3 -> Frames(SUBSET Dates)]}
    \cup {[tickers |-> <<"AAA", "BBB", "CCC", "DDD", "EEE", "FFF">>, rows |-> r] :
        r \in [1..6 -> Frames({{}, {1}})]}

\* data.keys(), in dict order
DataKeys(data) == {k \in 1..Len(data.tickers) : data.rows[k].key}
\* the keys whose frame has the date in its index
WithDate(data, date) == {k \in DataKeys(data) : date \in DOMAIN data.rows[k].gap}
\* every date of every frame
AllDates(data) == UNION {DOMAIN data.rows[k].gap : k \in DataKeys(data)}

\* sorted(gap_dict.items(), key=lambda x: x[1], reverse=True)[:k]: descending,
\* equal gaps in dict order (the sort is stable)
RECURSIVE SortedHead(_, _, _)
SortedHead(cands, gap, k) ==
    IF k = 0 \/ cands = {} THEN <<>>
    ELSE LET best == CHOOSE t \in cands :
                        \A u \in cands : gap[t] > gap[u] \/ (gap[t] = gap[u] /\ t <= u)
         IN  <<best>> \o SortedHead(cands \ {best}, gap, k - 1)

\* gap_series.sort_values(ascending=False).head(k): descending; the default
\* sort kind gives no order among equal gaps
RECURSIVE SortValuesHead(_, _, _)
SortValuesHead(cands, gap, k) ==
    IF k = 0 \/ cands = {} THEN {<<>>}
    ELSE UNION {{<<t>> \o rest : rest \in SortValuesHead(cands \ {t}, gap, k - 1)} :
                   t \in {c \in cands : \A u \in cands : gap[c] >= gap[u]}}

\* [elem[0] for elem in sorted_gap]
TickerNames(data, keys) == [i \in 1..Len(keys) |-> data.tickers[keys[i]]]

\* OpenRangeBreakout.get_trade_universe_by_date(data)
get_trade_universe_by_date(data) ==
    [date \in AllDates(data) |->
        TickerNames(data,
            SortedHead(WithDate(data, date),
                       [k \in WithDate(data, date) |-> data.rows[k].gap[date]], 5))]

\* topGap(data, tickers): the possible return values, or IndexError when data
\* is empty.  The dates are those of the first frame of data.
topGap(data) ==
    IF DataKeys(data) = {} THEN {[exc |-> "IndexError", out |-> EmptyDict]}
    ELSE LET reference_key == CHOOSE k \in DataKeys(data) : \A j \in DataKeys(data) : k <= j
             dates == DOMAIN data.rows[reference_key].gap
             top_2(date) ==
                 SortValuesHead(WithDate(data, date),
                                [k \in WithDate(data, date) |-> data.rows[k].gap[date]], 2)
         IN  {[exc |-> "none", out |-> [date \in dates |-> TickerNames(data, pick[date])]] :
                 pick \in {p \in [dates -> UNION {top_2(d) : d \in dates}] :
                              \A d \in dates : p[d] \in top_2(d)}}

UniverseInit ==
    /\ \E data \in DailyDatasets : fn = [NoFn EXCEPT !.arg = data]
    /\ pos = NoPosition
    /\ pre = NoPosition
    /\ hist = NoHist
    /\ CallInit
    /\ ledger = EmptyLedger
    /\ pre_ledger = EmptyLedger
    /\ ticker = "AAA"
    /\ NoSim
    /\ NoDriver

\* strategy.get_trade_universe_by_date(data)
CallGetTradeUniverse ==
    /\ fn.name = "none"
    /\ fn' = [fn EXCEPT !.name = "get_trade_universe_by_date",
                        !.out = get_trade_universe_by_date(fn.arg)]
    /\ UNCHANGED <<posVars, callVars, baseVars, simVars, drvVars>>

\* topGap(data, tickers)
CallTopGap ==
    /\ fn.name = "none"
    /\ \E r \in topGap(fn.arg) :
         fn' = [fn EXCEPT !.name = "topGap", !.out = r.out, !.exc = r.exc]
    /\ UNCHANGED <<posVars, callVars, baseVars, simVars, drvVars>>

UniverseNext == CallGetTradeUniverse \/ CallTopGap

SpecUniverse == UniverseInit /\ [][UniverseNext]_vars

\* ======================================================================
\* The KPIs of ib_orb_bktest_initial.py on a result matrix date_stats:
\* abs_return, win_rate, mean_ret_winner, mean_ret_loser
\* ======================================================================
\* date_stats is a sequence of dates in dict order, each the sequence of that
\* day's (ticker, return) items in dict order; a date may have no entry (every
\* item of the day was skipped or came back empty).
ReturnValues == {Norm(-2, 100), RZero, Norm(5, 100)}
DayStats ==
    {<<>>}
    \cup {<<[ticker |-> t, ret |-> r]>> : t \in Symbols, r \in ReturnValues}
    \cup {day \in {<<[ticker |-> t, ret |-> r], [ticker |-> u, ret |-> q]>> :
                        t \in Symbols, u \in Symbols, r \in ReturnValues, q \in ReturnValues} :
               day[1].ticker # day[2].ticker}
ResultMatrices == UNION {[1..n -> DayStats] : n \in 0..MaxDates}

\* float('nan')
NaN == [nan |-> TRUE]
RMul(a, b) == Norm(a.n * b.n, a.d * b.d)
ROne == RInt(1)

\* for i in date_stats: for ret in date_stats[i]: the values visited
RECURSIVE Visited(_)
Visited(date_stats) ==
    IF date_stats = <<>> THEN <<>>
    ELSE [k \in 1..Len(date_stats[1]) |-> date_stats[1][k].ret]
           \o Visited(Tail(date_stats))

\* sum(list)
RECURSIVE Sum(_)
Sum(list) == IF list = <<>> THEN RZero ELSE RAdd(list[1], Sum(Tail(list)))

\* [x for x in list if cond(x)]
RECURSIVE Winners(_)
Winners(list) ==
    IF list = <<>> THEN <<>>
    ELSE (IF RLt(RZero, list[1]) THEN <<list[1]>> ELSE <<>>) \o Winners(Tail(list))
RECURSIVE Losers(_)
Losers(list) ==
    IF list = <<>> THEN <<>>
    ELSE (IF RLt(list[1], RZero) THEN <<list[1]>> ELSE <<>>) \o Losers(Tail(list))

\* a / b of two Python numbers
Divide(a, b) ==
    IF b = RZero THEN [exc |-> "ZeroDivisionError", out |-> NaN]
    ELSE [exc |-> "none", out |-> RDiv(a, b)]

\* win_rate with `elif ... <= 0`: a zero entry counted as a loss
win_rate_zero_as_loss(date_stats) ==
    LET win_count == Len(Winners(Visited(date_stats)))
        lose_count == Len(Visited(date_stats)) - win_count
        q == Divide(RInt(win_count), RInt(win_count + lose_count))
    IN  IF q.exc # "none" THEN q ELSE [q EXCEPT !.out = RMulI(q.out, 100)]

\* win_rate(date_stats): (win_count / (win_count + lose_count)) * 100
win_rate(date_stats) ==
    LET win_count == Len(Winners(Visited(date_stats)))
        lose_count == Len(Losers(Visited(date_stats)))
        q == Divide(RInt(win_count), RInt(win_count + lose_count))
    IN  IF q.exc # "none" THEN q ELSE [q EXCEPT !.out = RMulI(q.out, 100)]

\* mean_ret_winner(date_stats): sum(win_ret) / len(win_ret)
mean_ret_winner(date_stats) ==
    LET win_ret == Winners(Visited(date_stats))
    IN  Divide(Sum(win_ret), RInt(Len(win_ret)))

\* mean_ret_loser(date_stats): sum(los_ret) / len(los_ret)
mean_ret_loser(date_stats) ==
    LET los_ret == Losers(Visited(date_stats))
    IN  Divide(Sum(los_ret), RInt(Len(los_ret)))

\* df.mean(axis=1) of one row of pd.DataFrame(date_stats).T: the mean of the
\* day's entries, NaN when it has none
RowMean(day) ==
    LET vals == [k \in 1..Len(day) |-> day[k].ret]
    IN  IF vals = <<>> THEN NaN ELSE RDiv(Sum(vals), RInt(Len(vals)))

\* df["ret"].cumprod(): a NaN row is skipped by the running product and is
\* NaN in the result
RECURSIVE CumProd(_)
CumProd(ret) ==
    IF ret = <<>> THEN <<>>
    ELSE LET before == CumProd(SubSeq(ret, 1, Len(ret) - 1))
             last == ret[Len(ret)]
             present == SelectSeq(before, LAMBDA x : x # NaN)
             running == IF present = <<>> THEN ROne ELSE present[Len(present)]
         IN  Append(before, IF last = NaN THEN NaN ELSE RMul(running, last))

\* abs_return with df.sum(axis=1) in place of df.mean(axis=1)
abs_return_sum_of_day(date_stats) ==
    LET ret == [k \in 1..Len(date_stats) |->
                   IF RowMean(date_stats[k]) = NaN THEN NaN
                   ELSE RAdd(ROne, RMulI(RowMean(date_stats[k]), Len(date_stats[k])))]
        cum == CumProd(ret)
    IN  IF cum = <<>> THEN [exc |-> "IndexError", out |-> NaN]
        ELSE IF cum[Len(cum)] = NaN THEN [exc |-> "none", out |-> NaN]
        ELSE [exc |-> "none", out |-> RSub(cum[Len(cum)], ROne)]

\* abs_return(date_stats): (df["ret"].cumprod() - 1)[-1]
abs_return(date_stats) ==
    LET ret == [k \in 1..Len(date_stats) |->
                   IF RowMean(date_stats[k]) = NaN THEN NaN
                   ELSE RAdd(ROne, RowMean(date_stats[k]))]
        cum == CumProd(ret)
    IN  IF cum = <<>> THEN [exc |-> "IndexError", out |-> NaN]
        ELSE IF cum[Len(cum)] = NaN THEN [exc |-> "none", out |-> NaN]
        ELSE [exc |-> "none", out |-> RSub(cum[Len(cum)], ROne)]

MetricsInit ==
    /\ \E date_stats \in ResultMatrices : fn = [NoFn EXCEPT !.arg = date_stats]
    /\ pos = NoPosition
    /\ pre = NoPosition
    /\ hist = NoHist
    /\ CallInit
    /\ ledger = EmptyLedger
    /\ pre_ledger = EmptyLedger
    /\ ticker = "AAA"
    /\ NoSim
    /\ NoDriver

CallAbsReturn ==
    /\ fn.name = "none"
    /\ LET r == abs_return(fn.arg)
       IN  fn' = [fn EXCEPT !.name = "abs_return", !.out = r.out, !.exc = r.exc]
    /\ UNCHANGED <<posVars, callVars, baseVars, simVars, drvVars>>

CallWinRate ==
    /\ fn.name = "none"
    /\ LET r == win_rate(fn.arg)
       IN  fn' = [fn EXCEPT !.name = "win_rate", !.out = r.out, !.exc = r.exc]
    /\ UNCHANGED <<posVars, callVars, baseVars, simVars, drvVars>>

CallMeanRetWinner ==
    /\ fn.name = "none"
    /\ LET r == mean_ret_winner(fn.arg)
       IN  fn' = [fn EXCEPT !.name = "mean_ret_winner", !.out = r.out, !.exc = r.exc]
    /\ UNCHANGED <<posVars, callVars, baseVars, simVars, drvVars>>

CallMeanRetLoser ==
    /\ fn.name = "none"
    /\ LET r == mean_ret_loser(fn.arg)
       IN  fn' = [fn EXCEPT !.name = "mean_ret_loser", !.out = r.out, !.exc = r.exc]
    /\ UNCHANGED <<posVars, callVars, baseVars, simVars, drvVars>>

MetricsNext == CallAbsReturn \/ CallWinRate \/ CallMeanRetWinner \/ CallMeanRetLoser

SpecMetrics == MetricsInit /\ [][MetricsNext]_vars

\* ======================================================================
\* LinRegSigmaStrategy.run_strategy(app, daily_data): the loop over the
\* tickers of daily_data and the simulation dates of each, with the weekly
\* re-fit of the two regressions.  Dates are day numbers, day 0 a Monday.
\* ======================================================================
\* The dates a daily frame may hold: a Tuesday, Wednesday, Thursday, Friday
\* and the Monday after
TradingDays == {1, 2, 3, 4, 7}
\* datetime.weekday(): Monday is 0, Friday is 4
weekday(date) == date % 7
\* self.start_date
StartDates == {2, 3}
\* medium_lookback=20, long_lookback=40 (days), on the scale of TradingDays
medium_lookback == 1
long_lookback == 2

\* The Close column of a ticker's daily frame, by date
DailyCloses(t) ==
    IF t = "AAA"
    THEN {[d \in TradingDays |-> 100 + 2 * d], [d \in TradingDays |-> 100 + 4 * (d % 2)]}
    ELSE {[d \in TradingDays |-> 50 + d], [d \in TradingDays |-> 50 + 3 * (d % 2)]}

\* A frame is the sequence of its rows in index order (sort_index)
RECURSIVE SortedRows(_, _)
SortedRows(dates, close) ==
    IF dates = {} THEN <<>>
    ELSE LET first == CHOOSE d \in dates : \A e \in dates : d <= e
         IN  <<[date |-> first, close |-> close[first]]>>
                 \o SortedRows(dates \ {first}, close)

DailyFrames(t) ==
    {SortedRows(dates, close) : dates \in SUBSET TradingDays, close \in DailyCloses(t)}

\* df.loc[<mask>]: the rows whose date satisfies the mask, in order
RECURSIVE Loc(_, _)
Loc(rows, keep) ==
    IF rows = <<>> THEN <<>>
    ELSE (IF rows[1].date \in keep THEN <<rows[1]>> ELSE <<>>) \o Loc(Tail(rows), keep)

IndexOf(rows) == {rows[k].date : k \in 1..Len(rows)}

\* period_df = df.loc[df.index <= simulation_date]
period_df_with_today(rows, simulation_date) ==
    Loc(rows, {d \in IndexOf(rows) : d <= simulation_date})

\* period_df = df.loc[df.index < simulation_date]
period_df(rows, simulation_date) ==
    Loc(rows, {d \in IndexOf(rows) : d < simulation_date})

\* sums over x = 0..N-1 and y = df_in["Close"].values
RECURSIVE SumY(_, _), SumXY(_, _), SumYY(_, _)
SumY(rows, k) == IF k = 0 THEN 0 ELSE SumY(rows, k - 1) + rows[k].close
SumXY(rows, k) == IF k = 0 THEN 0 ELSE SumXY(rows, k - 1) + (k - 1) * rows[k].close
SumYY(rows, k) == IF k = 0 THEN 0 ELSE SumYY(rows, k - 1) + rows[k].close * rows[k].close

\* LinRegSigmaStrategy._fit_linreg_scikit(df_in, simulation_date): the least
\* squares line of Close on 0..N-1 (slope 0 through the point when N is 1)
\* and sigma = np.std(y, ddof=1), kept as the square root of the variance,
\* NaN when N is 1
_fit_linreg_scikit(df_in, simulation_date) ==
    LET N == Len(df_in)
        Sx == (N * (N - 1)) \div 2
        Sxx == ((N - 1) * N * (2 * N - 1)) \div 6
        Sy == SumY(df_in, N)
        slope == IF N = 1 THEN RZero
                 ELSE Norm(N * SumXY(df_in, N) - Sx * Sy, N * Sxx - Sx * Sx)
    IN  [slope |-> slope,
         intercept |-> RDivI(RSub(RInt(Sy), RMulI(slope, Sx)), N),
         sigma |-> IF N = 1 THEN NaN
                   ELSE [sqrt |-> Norm(N * SumYY(df_in, N) - Sy * Sy, N * (N - 1))],
         data_length |-> N,
         prediction_date |-> simulation_date]

\* LinRegSigmaStrategy._compute_linregs_for_ticker(ticker, period_df,
\* simulation_date): None for an empty frame, else the two fits on the rows
\* of the last medium_lookback / long_lookback days of period_df
_compute_linregs_for_ticker(t, period, simulation_date) ==
    IF period = <<>> THEN None
    ELSE LET last == period[Len(period)].date
             df_med == Loc(period, {d \in IndexOf(period) : d >= last - medium_lookback})
             df_long == Loc(period, {d \in IndexOf(period) : d >= last - long_lookback})
         IN  [medium |-> _fit_linreg_scikit(df_med, simulation_date),
              long |-> _fit_linreg_scikit(df_long, simulation_date)]

\* slope * data_length + intercept
lr_value_at_fit_end(term_results, trading_days_from_train) ==
    RAdd(RMulI(term_results.slope, term_results.data_length), term_results.intercept)

\* slope * (data_length + trading_days_from_train) + intercept
lr_value(term_results, trading_days_from_train) ==
    RAdd(RMulI(term_results.slope, term_results.data_length + trading_days_from_train),
         term_results.intercept)

\* Before run_strategy is called.  history is the list of the (ticker, date)
\* iterations that reached the band computation, each with whether it re-fitted
IdleLinReg ==
    [driver |-> "LinRegSigmaStrategy.run_strategy", pc |-> "idle", exc |-> "none",
     daily_data |-> EmptyDict, start_date |-> 0,
     next_reqID |-> None, trading_days_from_train |-> 0,
     medium_term_results |-> EmptyDict, long_term_results |-> EmptyDict,
     last_train_date |-> None, k |-> 0, simulation_index |-> <<>>, i |-> 0,
     period_df |-> <<>>, refit |-> FALSE, regressions_results |-> EmptyDict,
     results |-> EmptyDict, history |-> <<>>]

\* The ticker and the simulation date of the current iteration
RunTicker == TickerOrder[run.k]
RunDate == run.simulation_index[run.i].date

\* What the request and the simulate_intraday call of an iteration come to:
\* 0 (skip or no bars), the value simulate_intraday returns, or its exception
\* (KeyError at self.position[ticker] for a ticker nobody registered,
\* AttributeError at Position.avg_price once a position was opened)
LinRegOutcomes == {"0", "pnl", "KeyError", "AttributeError"}

LinRegInit ==
    /\ \E a \in DailyFrames("AAA"), b \in DailyFrames("BBB"), start \in StartDates :
         run = [IdleLinReg EXCEPT !.daily_data = [t \in Symbols |-> IF t = "AAA" THEN a ELSE b],
                                  !.start_date = start]
    /\ app = NewApp
    /\ broker = NoBroker
    /\ NoSim
    /\ ledger = EmptyLedger
    /\ pre_ledger = EmptyLedger
    /\ ticker = "AAA"
    /\ fn = NoFn
    /\ CallInit
    /\ pos = NoPosition
    /\ pre = NoPosition
    /\ hist = NoHist

\* self.next_reqID = 1000; trading_days_from_train = 0;
\* medium_term_results, long_term_results = {}, {}
LinRegBegin ==
    /\ run.pc = "idle"
    /\ run' = [run EXCEPT !.pc = "ticker", !.k = 1, !.next_reqID = 1000,
                          !.trading_days_from_train = 0,
                          !.medium_term_results = EmptyDict,
                          !.long_term_results = EmptyDict]
    /\ UNCHANGED <<fnVars, posVars, callVars, baseVars, simVars, app, broker>>

\* for ticker, df in daily_data.items(): if df.empty: continue;
\* simulation_index = df[df.index >= self.start_date].index
LinRegTicker ==
    /\ run.pc = "ticker"
    /\ run' = IF run.k > Len(TickerOrder) THEN [run EXCEPT !.pc = "done"]
              ELSE LET rows == run.daily_data[RunTicker] IN
                   IF rows = <<>> THEN [run EXCEPT !.k = @ + 1]
                   ELSE [run EXCEPT !.pc = "date", !.i = 1,
                            !.simulation_index =
                                Loc(rows, {d \in IndexOf(rows) : d >= run.start_date})]
    /\ UNCHANGED <<fnVars, posVars, callVars, baseVars, simVars, app, broker>>

\* for simulation_date in simulation_index: the results entry of the date
\* and the test `simulation_date.weekday() == 4 or self.next_reqID == 1000`
LinRegDate ==
    /\ run.pc = "date"
    /\ run' = IF run.i > Len(run.simulation_index)
              THEN [run EXCEPT !.pc = "ticker", !.k = @ + 1]
              ELSE [run EXCEPT
                      !.results = IF HasKey(@, RunDate) THEN @ ELSE Put(@, RunDate, EmptyDict),
                      !.refit = weekday(RunDate) = 4 \/ run.next_reqID = 1000,
                      !.pc = IF weekday(RunDate) = 4 \/ run.next_reqID = 1000
                             THEN "fit" ELSE "bands"]
    /\ UNCHANGED <<fnVars, posVars, callVars, baseVars, simVars, app, broker>>

\* The re-fit: period_df, the two fits (unpacking None raises TypeError),
\* last_train_date, trading_days_from_train = 0
LinRegFit ==
    /\ run.pc = "fit"
    /\ LET period == period_df(run.daily_data[RunTicker], RunDate)
           fits == _compute_linregs_for_ticker(RunTicker, period, RunDate)
       IN  run' = IF fits = None
                  THEN [run EXCEPT !.period_df = period, !.pc = "raised", !.exc = "TypeError"]
                  ELSE [run EXCEPT !.period_df = period,
                                   !.medium_term_results = fits.medium,
                                   !.long_term_results = fits.long,
                                   !.last_train_date = RunDate,
                                   !.trading_days_from_train = 0,
                                   !.pc = "bands"]
    /\ UNCHANGED <<fnVars, posVars, callVars, baseVars, simVars, app, broker>>

\* trading_days_from_train += 1 and regressions_results
LinRegBands ==
    /\ run.pc = "bands"
    /\ LET n == run.trading_days_from_train + 1 IN
       run' = [run EXCEPT
                 !.trading_days_from_train = n,
                 !.regressions_results =
                     [lr_med |-> lr_value(run.medium_term_results, n),
                      lr_long |-> lr_value(run.long_term_results, n),
                      sigma_med |-> run.medium_term_results.sigma,
                      sigma_long |-> run.long_term_results.sigma],
                 !.history = Append(@, [ticker |-> RunTicker, date |-> RunDate,
                                        refit |-> run.refit]),
                 !.pc = "request"]
    /\ UNCHANGED <<fnVars, posVars, callVars, baseVars, simVars, app, broker>>

\* The request of the date's intraday bars and the rest of the iteration:
\* next_reqID += 1 on every path, results[simulation_date][ticker]
LinRegRequest ==
    /\ run.pc = "request"
    /\ \E outcome \in LinRegOutcomes :
         run' = IF outcome \in {"0", "pnl"}
                THEN [run EXCEPT !.next_reqID = @ + 1,
                                 !.results[RunDate] = Put(@, RunTicker, outcome),
                                 !.i = @ + 1, !.pc = "date"]
                ELSE [run EXCEPT !.next_reqID = @ + 1, !.pc = "raised", !.exc = outcome]
    /\ UNCHANGED <<fnVars, posVars, callVars, baseVars, simVars, app, broker>>

LinRegNext ==
    \/ LinRegBegin \/ LinRegTicker \/ LinRegDate \/ LinRegFit \/ LinRegBands
    \/ LinRegRequest

SpecLinReg == LinRegInit /\ [][LinRegNext]_vars

\* ======================================================================
\* The live variant: BaseStrategyLive's ledger fed by trade updates, and
\* LinearRegSigmaStrategyLive.on_new_bar placing orders through the client
\* ======================================================================
\* An ib_insync contract is an object with a symbol; on_new_bar hands the
\* bare ticker string to place_live_order instead
Stock(symbol) == [symbol |-> symbol]
StrContract(symbol) == [str |-> symbol]
ContractTicker(contract) == IF HasAttr(contract, "symbol") THEN contract.symbol ELSE contract.str

\* The execution ids the broker hands out, in order, and the comment
\* f"Live fill (execId={fill.execution.execId})" of each
ExecIds == <<"0001", "0002", "0003", "0004">>
LiveComment ==
    ("0001" :> "Live fill (execId=0001)") @@ ("0002" :> "Live fill (execId=0002)") @@
    ("0003" :> "Live fill (execId=0003)") @@ ("0004" :> "Live fill (execId=0004)")

\* BaseStrategyLive.reduce_position / add_position: the code of the
\* backtester's BaseStrategy, line for line
Live_reduce_position(self, t, tk) == reduce_position(self, t, tk)
Live_add_position(self, t, tk) == add_position(self, t, tk)

\* One iteration of the loop of on_trade_update for a fill of a trade on
\* ticker: the ledger after it, the exception it raised, and the call it made
\* (the method, the position it found, the local Trade)
on_trade_update_fill(self, fill, tk) ==
    LET side == IF fill.side = "BOT" THEN "B" ELSE "S"
        local_trade == Trade_init(tk, fill.avgPrice, fill.shares, side,
                                  fill.time, LiveComment[fill.execId])
    IN  IF ~HasKey(self.position, tk)
        THEN [self |-> self, exc |-> "KeyError",
              call |-> [method |-> "none", found |-> None, trade |-> local_trade]]
        ELSE LET found == self.position[tk]
                 adds == \/ side = "B" /\ (found = None \/ found.side = "B")
                         \/ side = "S" /\ (found = None \/ found.side = "S")
                 r == IF adds THEN Live_add_position(self, local_trade, tk)
                      ELSE Live_reduce_position(self, local_trade, tk)
             IN  [self |-> r.self, exc |-> r.exc,
                  call |-> [method |-> IF adds THEN "add_position" ELSE "reduce_position",
                            found |-> found, trade |-> r.trade]]

\* for fill in trade.fills, from index k: an exception ends the loop and
\* keeps what the earlier iterations did
RECURSIVE on_trade_update_loop(_, _, _, _)
on_trade_update_loop(self, fills, contract, k) ==
    IF k > Len(fills) THEN [self |-> self, exc |-> "none", log |-> <<>>]
    ELSE IF ~HasAttr(contract, "symbol")
    THEN [self |-> self, exc |-> "AttributeError", log |-> <<>>]
    ELSE LET d == on_trade_update_fill(self, fills[k], contract.symbol) IN
         IF d.exc # "none"
         THEN [self |-> d.self, exc |-> d.exc, log |-> <<d.call>>]
         ELSE LET rest == on_trade_update_loop(d.self, fills, contract, k + 1) IN
              [self |-> rest.self, exc |-> rest.exc, log |-> <<d.call>> \o rest.log]

\* BaseStrategyLive.on_trade_update(trade): every fill of trade.fills, the
\* cumulative list of the order's executions
on_trade_update(self, ibtrade) ==
    IF ibtrade.fills = <<>> THEN [self |-> self, exc |-> "none", log |-> <<>>]
    ELSE on_trade_update_loop(self, ibtrade.fills, ibtrade.contract, 1)

\* ---- LinearRegSigmaStrategyLive
\* __init__ defaults and the sigma multipliers it sets
live_medium_lookback == 20
live_long_lookback == 40
medium_sigma_band_open == 2
medium_sigma_band_sl == 4
long_sigma_band_open == 2

\* df.iloc[-lookback:]
ILocLast(close_array, lookback) ==
    IF Len(close_array) <= lookback THEN close_array
    ELSE SubSeq(close_array, Len(close_array) - lookback + 1, Len(close_array))

\* LinearRegSigmaStrategyLive._fit_linreg_scikit(close_array): zeros for
\* fewer than two closes, else the least squares line on 0..n-1 and
\* sigma = np.std(close_array, ddof=1), kept as the square root of the variance
Live_fit_linreg_scikit(close_array) ==
    LET N == Len(close_array)
        rows == [i \in 1..N |-> [close |-> close_array[i]]]
        Sx == (N * (N - 1)) \div 2
        Sxx == ((N - 1) * N * (2 * N - 1)) \div 6
        Sy == SumY(rows, N)
        slope == Norm(N * SumXY(rows, N) - Sx * Sy, N * Sxx - Sx * Sx)
    IN  IF N < 2
        THEN [slope |-> RZero, intercept |-> RZero, sigma |-> [sqrt |-> RZero], n |-> 0]
        ELSE [slope |-> slope,
              intercept |-> RDivI(RSub(RInt(Sy), RMulI(slope, Sx)), N),
              sigma |-> [sqrt |-> Norm(N * SumYY(rows, N) - Sy * Sy, N * (N - 1))],
              n |-> N]

\* LinearRegSigmaStrategyLive._compute_linregs_for_ticker(df): the fits of
\* df['close'] over the last medium / long lookback rows; KeyError when the
\* frame has no column of that name
Live_compute_linregs_for_ticker(frame) ==
    IF frame.column # "close" THEN [value |-> None, exc |-> "KeyError"]
    ELSE [value |-> [medium |-> Live_fit_linreg_scikit(ILocLast(frame.values, live_medium_lookback)),
                     long |-> Live_fit_linreg_scikit(ILocLast(frame.values, live_long_lookback))],
          exc |-> "none"]

\* LinearRegSigmaStrategyLive.prepare_data(tickers) over the daily frames the
\* client returned, from index k of tickers: an empty frame is skipped
RECURSIVE Live_prepare_data(_, _, _, _)
Live_prepare_data(lr_info, tickers, frames, k) ==
    IF k > Len(tickers) THEN [lr_info |-> lr_info, exc |-> "none"]
    ELSE IF frames[tickers[k]].values = <<>>
    THEN Live_prepare_data(lr_info, tickers, frames, k + 1)
    ELSE LET c == Live_compute_linregs_for_ticker(frames[tickers[k]]) IN
         IF c.exc # "none" THEN [lr_info |-> lr_info, exc |-> c.exc]
         ELSE Live_prepare_data(Put(lr_info, tickers[k], c.value), tickers, frames, k + 1)

\* price < centre - k * sigma and the three comparisons like it, with sigma
\* the non-negative square root of sigma.sqrt
RSq(a) == RMul(a, a)
BelowBand(price, centre, k, sigma) ==
    RLt(price, centre) /\ RLt(RMulI(sigma.sqrt, k * k), RSq(RSub(centre, price)))
AtOrBelowBand(price, centre, k, sigma) ==
    RLe(price, centre) /\ RLe(RMulI(sigma.sqrt, k * k), RSq(RSub(centre, price)))
AboveBand(price, centre, k, sigma) ==
    RLt(centre, price) /\ RLt(RMulI(sigma.sqrt, k * k), RSq(RSub(price, centre)))
AtOrAboveBand(price, centre, k, sigma) ==
    RLe(centre, price) /\ RLe(RMulI(sigma.sqrt, k * k), RSq(RSub(price, centre)))

\* slope * n + intercept
live_lr(d) == RAdd(RMulI(d.slope, d.n), d.intercept)

NoOrder == [side |-> "none", quantity |-> 0]

\* IBClientLive.place_live_order(contract, side, quantity): a market order
\* handed to ib.placeOrder, then a print of contract.symbol.  What
\* ib.placeOrder does with a contract that is a bare string is the library's:
\* accepted says whether it sent the order
place_live_order(contract, side, quantity, accepted) ==
    [order |-> IF HasAttr(contract, "symbol") \/ accepted
               THEN [contract |-> contract, action |-> side,
                     totalQuantity |-> quantity, fills |-> <<>>]
               ELSE None,
     exc |-> IF HasAttr(contract, "symbol") THEN "none" ELSE "AttributeError"]

\* LinearRegSigmaStrategyLive.on_new_bar(ticker, open_price, bar_time,
\* volume): the order it placed (None when it placed none) and the
\* exception it raised
on_new_bar(self, ib, tk, open_price, volume, accepted) ==
    IF ~HasKey(self.lr_info, tk) THEN [order |-> None, exc |-> "none"]
    ELSE IF ~HasAttr(ib, "position") THEN [order |-> None, exc |-> "AttributeError"]
    ELSE
    LET lr_med_dict == self.lr_info[tk].medium
        lr_long_dict == self.lr_info[tk].long
        lr_med == live_lr(lr_med_dict)
        lr_long == live_lr(lr_long_dict)
        sigma_med == lr_med_dict.sigma
        sigma_long == lr_long_dict.sigma
        price == RInt(open_price)
        ticker_pos == IF HasKey(ib.position, tk) THEN ib.position[tk] ELSE None
    IN  IF ticker_pos = None
        THEN IF /\ BelowBand(price, lr_med, medium_sigma_band_open, sigma_med)
                /\ BelowBand(price, lr_long, long_sigma_band_open, sigma_long)
             THEN place_live_order(StrContract(tk), "BUY", volume, accepted)
             ELSE IF /\ AboveBand(price, lr_med, medium_sigma_band_open, sigma_med)
                     /\ AboveBand(price, lr_long, long_sigma_band_open, sigma_long)
             THEN place_live_order(StrContract(tk), "SELL", volume, accepted)
             ELSE [order |-> None, exc |-> "none"]
        ELSE IF ticker_pos.side = "B"
        THEN IF RLe(lr_med, price)
             THEN place_live_order(StrContract(tk), "SELL", ticker_pos.volume, accepted)
             ELSE IF AtOrBelowBand(price, lr_med, medium_sigma_band_sl, sigma_med)
             THEN place_live_order(StrContract(tk), "SELL", ticker_pos.volume, accepted)
             ELSE [order |-> None, exc |-> "none"]
        ELSE IF RLe(price, lr_med)
             THEN place_live_order(StrContract(tk), "BUY", ticker_pos.volume, accepted)
             ELSE IF AtOrAboveBand(price, lr_med, medium_sigma_band_sl, sigma_med)
             THEN place_live_order(StrContract(tk), "BUY", ticker_pos.volume, accepted)
             ELSE [order |-> None, exc |-> "none"]

\* LinearRegSigmaStrategyLive.place_live_trade(ticker, side, qty, ref_price):
\* the order goes out on a Stock contract
place_live_trade(tk, side, qty) ==
    place_live_order(Stock(tk), side, qty, TRUE)

\* ---- the live session
\* The daily close arrays the client may return for the one ticker the
\* runner subscribes, under fetch_historical_data's column name ("Close") or
\* under the name _compute_linregs_for_ticker reads ("close")
LiveTickers == <<"AAA">>
LiveSymbols == {LiveTickers[i] : i \in 1..Len(LiveTickers)}
LiveCloseArrays == UNION {[1..n -> 1..MaxPrice] : n \in 0..MaxData}
LiveColumns == {"Close", "close"}

\* The client object the strategy holds as self.ib: an IBClientLive has
\* positions, open_trades, ... and no position; a client that exposes the
\* ledger on_trade_update keeps has it as position
LiveIb == IF app.has_position THEN [position |-> ledger.position]
          ELSE [positions |-> EmptyDict]

\* The shares of an order the broker has executed, and whether an order is
\* still working
RECURSIVE FilledShares(_, _)
FilledShares(fills, k) == IF k = 0 THEN 0 ELSE FilledShares(fills, k - 1) + fills[k].shares
Remaining(order) == order.totalQuantity - FilledShares(order.fills, Len(order.fills))
RECURSIVE CountFills(_, _)
CountFills(orders, k) == IF k = 0 THEN 0 ELSE CountFills(orders, k - 1) + Len(orders[k].fills)
ExecCount == CountFills(app.orders, Len(app.orders))

\* The executions of an order that the trade log of its ticker holds
AppliedTimes(order, fill) ==
    LET t == ContractTicker(order.contract) IN
    IF ~HasKey(ledger.trades, t) THEN 0
    ELSE Cardinality({j \in 1..Len(ledger.trades[t]) :
                         ledger.trades[t][j].comment = LiveComment[fill.execId]})

\* An order placed whose fill has not yet been applied to the ledger in full
Pending(order) ==
    \/ Remaining(order) > 0
    \/ \E k \in 1..Len(order.fills) : AppliedTimes(order, order.fills[k]) = 0
PendingFor(t) == \E i \in 1..Len(app.orders) :
                    ContractTicker(app.orders[i].contract) = t /\ Pending(app.orders[i])

LiveInit ==
    /\ \E registered \in SUBSET LiveSymbols, with_pnl \in BOOLEAN :
         ledger = [position |-> [t \in registered |-> None],
                   trades |-> [t \in registered |-> <<>>],
                   pnl |-> [t \in (IF with_pnl THEN registered ELSE {}) |-> <<>>]]
    /\ pre_ledger = ledger
    /\ \E has_position \in BOOLEAN :
         app = [orders |-> <<>>, has_position |-> has_position]
    /\ \E values \in LiveCloseArrays, column \in LiveColumns :
         LET p == Live_prepare_data(EmptyDict, LiveTickers,
                     [t \in LiveSymbols |-> [column |-> column, values |-> values]], 1)
         IN  run = [driver |-> "live", lr_info |-> p.lr_info, prepare_exc |-> p.exc,
                    bar |-> None]
    /\ broker = NoBroker
    /\ ticker = "AAA"
    /\ fn = NoFn
    /\ CallInit
    /\ pos = NoPosition
    /\ pre = NoPosition
    /\ hist = NoHist
    /\ NoSim

LiveUnchanged == UNCHANGED <<posVars, trade, broker, simVars>>

\* A real-time bar of a ticker: the runner calls on_new_bar(ticker, open, ts,
\* volume=1)
LiveOnNewBar ==
    /\ Len(app.orders) < MaxItems
    /\ \E t \in LiveSymbols, open_price \in 1..MaxPrice, accepted \in BOOLEAN :
         LET r == on_new_bar(run, LiveIb, t, open_price, 1, accepted) IN
         /\ app' = IF r.order = None THEN app
                   ELSE [app EXCEPT !.orders = Append(@, r.order)]
         /\ run' = [run EXCEPT !.bar = [ticker |-> t, pending |-> PendingFor(t),
                                        placed |-> r.order # None]]
         /\ fn' = [name |-> "on_new_bar", arg |-> t, out |-> <<>>, exc |-> r.exc]
         /\ ticker' = t
         /\ exc' = r.exc
    /\ op' = "on_new_bar"
    /\ pre_ledger' = ledger
    /\ UNCHANGED <<ledger, calls>>
    /\ LiveUnchanged

\* place_live_trade(ticker, side, qty, ref_price), as the runner's market
\* close does to flatten a position
LivePlaceTrade ==
    /\ Len(app.orders) < MaxItems
    /\ \E t \in LiveSymbols, side \in {"BUY", "SELL"}, qty \in Volumes :
         LET r == place_live_trade(t, side, qty) IN
         /\ app' = [app EXCEPT !.orders = Append(@, r.order)]
         /\ fn' = [name |-> "place_live_trade", arg |-> t, out |-> <<>>, exc |-> r.exc]
         /\ ticker' = t
         /\ exc' = r.exc
    /\ op' = "place_live_trade"
    /\ pre_ledger' = ledger
    /\ UNCHANGED <<ledger, calls, run>>
    /\ LiveUnchanged

\* The broker executes shares of a working order: the execution joins the
\* order's fills and the trade update is delivered to on_trade_update
LiveExecution ==
    /\ calls < MaxCalls
    /\ \E i \in 1..Len(app.orders) :
         /\ Remaining(app.orders[i]) > 0
         /\ \E shares \in 1..Remaining(app.orders[i]), p \in Prices :
              LET fill == [execId |-> ExecIds[ExecCount + 1],
                           side |-> IF app.orders[i].action = "BUY" THEN "BOT" ELSE "SLD",
                           shares |-> shares, avgPrice |-> p, time |-> calls + 1]
                  ibtrade == [app.orders[i] EXCEPT !.fills = Append(@, fill)]
                  r == on_trade_update(ledger, ibtrade)
              IN  /\ app' = [app EXCEPT !.orders[i] = ibtrade]
                  /\ ledger' = r.self
                  /\ fn' = [name |-> "on_trade_update", arg |-> i, out |-> r.log,
                            exc |-> r.exc]
                  /\ ticker' = ContractTicker(ibtrade.contract)
                  /\ exc' = r.exc
    /\ op' = "on_trade_update"
    /\ calls' = calls + 1
    /\ pre_ledger' = ledger
    /\ UNCHANGED run
    /\ LiveUnchanged

\* A trade update that brings no new execution (the order's status changed)
LiveStatusUpdate ==
    /\ calls < MaxCalls
    /\ \E i \in 1..Len(app.orders) :
         LET r == on_trade_update(ledger, app.orders[i]) IN
         /\ ledger' = r.self
         /\ fn' = [name |-> "on_trade_update", arg |-> i, out |-> r.log, exc |-> r.exc]
         /\ ticker' = ContractTicker(app.orders[i].contract)
         /\ exc' = r.exc
    /\ op' = "on_trade_update"
    /\ calls' = calls + 1
    /\ pre_ledger' = ledger
    /\ UNCHANGED <<app, run>>
    /\ LiveUnchanged

LiveNext == LiveOnNewBar \/ LivePlaceTrade \/ LiveExecution \/ LiveStatusUpdate

SpecLive == LiveInit /\ [][LiveNext]_vars


\* ======================================================================
\* Properties of Position.add / Position.reduce (SpecPos)
\* ======================================================================
SameSymbol == pre.contract = trade.contract
SignedDiff == IF pre.side = "B" THEN RSub(trade.price, pre.price)
                                ELSE RSub(pre.price, trade.price)

\* C1: after any sequence of successful same-symbol, same-side adds (no
\* reduce applied), volume = opening volume + sum of added volumes, and
\* price * volume = opening price * opening volume + sum of price * volume
\* of the added trades.
C1_VolumeWeightedMean ==
    hist.reduces = 0 =>
        /\ pos.volume = hist.open_volume + hist.added_volume
        /\ RMulI(pos.price, pos.volume) =
              RAdd(RMulI(hist.open_price, hist.open_volume), hist.added_notional)
        /\ pos.side = hist.open_side

C1_Witness ==
    /\ hist.adds >= 2
    /\ hist.reduces = 0
    /\ pos.price.d > 1

\* C2: reduce with a same-symbol, opposite-side trade of volume <= the
\* position's: realized_pnl = (trade.price - avg) * trade.volume for a long,
\* (avg - trade.price) * trade.volume for a short, positive exactly when the
\* price moved in the position's favour; volume drops by trade.volume; side
\* and average price are unchanged.
C2_PartialReduce ==
    (op = "reduce" /\ SameSymbol /\ pre.side # trade.side /\ trade.volume <= pre.volume) =>
        /\ exc = "none"
        /\ trade.realized_pnl = RMulI(SignedDiff, trade.volume)
        /\ (pre.side = "B" => (RLt(RZero, trade.realized_pnl) <=> RLt(pre.price, trade.price)))
        /\ (pre.side = "S" => (RLt(RZero, trade.realized_pnl) <=> RLt(trade.price, pre.price)))
        /\ pos.volume = pre.volume - trade.volume
        /\ pos.side = pre.side
        /\ pos.price = pre.price

C2_Witness ==
    /\ op = "reduce"
    /\ exc = "none"
    /\ pre.side = "S"
    /\ trade.volume < pre.volume
    /\ RLt(RZero, trade.realized_pnl)

\* C3: flip.  reduce with a same-symbol, opposite-side trade of volume > the
\* position's leaves volume = trade.volume - old volume, side = trade.side,
\* price = trade.price; realized_pnl is computed on the old volume against
\* the old average price.
C3_Flip ==
    (op = "reduce" /\ SameSymbol /\ pre.side # trade.side /\ trade.volume > pre.volume) =>
        /\ exc = "none"
        /\ pos.volume = trade.volume - pre.volume
        /\ pos.side = trade.side
        /\ pos.price = trade.price
        /\ trade.realized_pnl = RMulI(SignedDiff, pre.volume)

C3_Witness ==
    /\ op = "reduce"
    /\ exc = "none"
    /\ pre.volume >= 1
    /\ trade.volume > pre.volume
    /\ pos.side # pre.side
    /\ trade.realized_pnl # RZero

\* The attributes a Trade carries after Trade.__init__
TradeAttrs == {"contract", "price", "volume", "side", "timestamp", "comment", "realized_pnl"}

\* The example of the spec: Position(B, 100, 10) reduced by Trade(S, 110, 10)
Example_reduce ==
    Position_reduce(Position_init("AAA", RInt(100), 10, "B", 0),
                    Trade_init("AAA", RInt(110), 10, "S", 1, ""))

C5_RejectedCallsChangeNothing ==
    /\ (op = "add" /\ (~SameSymbol \/ pre.side # trade.side)) =>
          /\ exc = "ValueError"
          /\ pos = pre
          /\ trade.realized_pnl = RZero
    /\ (op = "reduce" /\ (~SameSymbol \/ pre.side = trade.side)) =>
          /\ exc = "ValueError"
          /\ pos = pre
          /\ trade.realized_pnl = RZero

C5_Witness ==
    /\ op = "reduce"
    /\ exc = "ValueError"
    /\ SameSymbol
    /\ pre.side = trade.side
    /\ trade.price # pre.price
    /\ pre.last_update # trade.timestamp

\* C6 as stated, for Position.reduce: a reduce applied to a Position that is
\* already flat (volume 0) raises.
C6_Original ==
    (op = "reduce" /\ pre.volume = 0 /\ SameSymbol /\ pre.side # trade.side) =>
        exc # "none"

\* ======================================================================
\* Properties of the BaseStrategy ledger (SpecBase)
\* ======================================================================
PrePosition == pre_ledger.position[ticker]
NowPosition == ledger.position[ticker]
Registered == HasKey(pre_ledger.position, ticker)

\* C7 as stated: opening for a symbol that already has an open position
\* fails and changes nothing; opening for a symbol with no position creates a
\* Position at the opening price with the fill's volume and side.
C7_Original ==
    (op = "add" /\ Registered) =>
        IF PrePosition # None
        THEN exc # "none" /\ ledger = pre_ledger
        ELSE /\ exc = "none"
             /\ NowPosition.price = trade.price
             /\ NowPosition.volume = trade.volume
             /\ NowPosition.side = trade.side

\* C7 amended: add_position for a symbol that already has an open position
\* averages a trade of the position's contract and side into it and rejects
\* any other trade with ValueError, changing nothing; for a symbol with no
\* position (None) it creates a Position at the opening price with the
\* fill's volume and side.  No other symbol's position changes.
C7_OpenOrAdd ==
    (op = "add" /\ Registered) =>
        /\ \A t \in DOMAIN ledger.position \ {ticker} :
              ledger.position[t] = pre_ledger.position[t]
        /\ IF PrePosition = None
           THEN /\ exc = "none"
                /\ NowPosition.price = trade.price
                /\ NowPosition.volume = trade.volume
                /\ NowPosition.side = trade.side
           ELSE IF PrePosition.contract = trade.contract /\ PrePosition.side = trade.side
           THEN /\ exc = "none"
                /\ NowPosition.volume = PrePosition.volume + trade.volume
                /\ RMulI(NowPosition.price, NowPosition.volume) =
                      RAdd(RMulI(PrePosition.price, PrePosition.volume),
                           RMulI(trade.price, trade.volume))
                /\ NowPosition.side = PrePosition.side
           ELSE /\ exc = "ValueError"
                /\ ledger = pre_ledger

C7_Witness ==
    /\ op = "add"
    /\ exc = "none"
    /\ Registered
    /\ PrePosition # None
    /\ NowPosition.volume > PrePosition.volume
    /\ NowPosition.price # PrePosition.price

\* C8: every symbol of the ledger holds None or a Position of volume > 0.
C8_NoFlatPositionInLedger ==
    \A t \in DOMAIN ledger.position :
        ledger.position[t] = None \/ ledger.position[t].volume > 0

C8_Witness ==
    /\ op = "reduce"
    /\ exc = "none"
    /\ PrePosition # None
    /\ PrePosition.volume = trade.volume
    /\ NowPosition = None

\* ======================================================================
\* Properties of simulate_intraday (SpecSim)
\* ======================================================================
OpenComments == {"Open long breakout", "Open short breakout",
                 "Open long LR strategy intraday", "Open short LR strategy intraday", "Open"}
TpComments == {"Close long: TP", "Close short: TP"}
SlComments == {"Close long: SL", "Close short: SL"}
IsOpenTrade(t) == t.comment \in OpenComments
IsCloseTrade(t) == t.comment \in TpComments \cup SlComments

\* FLAT at the start of the call, at most an opening trade followed by at
\* most a closing trade in the log
C9_OneRoundTrip ==
    strategy = "ORB" =>
        /\ (sim.pc = "idle" \/ (sim.pc = "loop" /\ sim.i = 1)) =>
              (sim.position = None /\ sim.trades_log = <<>>)
        /\ Len(sim.trades_log) <= 2
        /\ Len(sim.trades_log) >= 1 => IsOpenTrade(sim.trades_log[1])
        /\ Len(sim.trades_log) = 2 => IsCloseTrade(sim.trades_log[2])
        /\ sim.position = None => Len(sim.trades_log) # 1

\* C9: within one OpenRangeBreakout.simulate_intraday call the position goes
\* FLAT -> OPEN -> FLAT at most once: the call starts FLAT, logs at most one
\* opening and at most one closing trade, the closing one after the opening
\* one, and once the closing trade is logged no further bar is processed and
\* nothing more is logged.
C9_FlatOpenFlatOnce ==
    /\ []C9_OneRoundTrip
    /\ [][(strategy = "ORB" /\ Len(sim.trades_log) = 2) =>
             (sim'.i = sim.i /\ df' = df /\ sim'.trades_log = sim.trades_log)]_vars

C9_Witness ==
    /\ strategy = "ORB"
    /\ Len(sim.trades_log) = 2
    /\ IsOpenTrade(sim.trades_log[1])
    /\ IsCloseTrade(sim.trades_log[2])
    /\ sim.i = 2

\* Both exit predicates of OpenRangeBreakout hold on the bar
ORB_BothHit(side, bar) ==
    IF side = "B"
    THEN 100 * bar.High >= 105 * sim.hi_price /\ bar.Low <= sim.lo_price
    ELSE 100 * bar.Low <= 95 * sim.lo_price /\ bar.High >= sim.hi_price

\* Both exit predicates of LinRegSigmaStrategy hold at the price
LR_BothHit(side, price) ==
    /\ sim.lr_med # None /\ sim.sigma_med # None
    /\ IF side = "B"
       THEN /\ RLe(sim.lr_med, price)
            /\ RLe(RAdd(RMulI(price, 2), RMulI(sim.sigma_med, 7)), RMulI(sim.lr_med, 2))
       ELSE /\ RLe(price, sim.lr_med)
            /\ RLe(RAdd(RMulI(sim.lr_med, 2), RMulI(sim.sigma_med, 7)), RMulI(price, 2))

LRTrades == ledger.trades["AAA"]

\* C10: a bar that satisfies the take-profit and the stop-loss predicate of
\* the open position closes it by the take-profit branch: the closing trade
\* is the TP one, priced at the take-profit level (1.05 * first-bar high for
\* a long and 0.95 * first-bar low for a short in OpenRangeBreakout, lr_med
\* in LinRegSigmaStrategy), for both sides in both strategies.
C10_TakeProfitFirst ==
    /\ (strategy = "ORB" /\ Len(sim.trades_log) >= 1
                         /\ ORB_BothHit(sim.trades_log[1].side, df.cur)) =>
          /\ Len(sim.trades_log) = 2
          /\ sim.trades_log[2].comment =
                (IF sim.trades_log[1].side = "B" THEN "Close long: TP" ELSE "Close short: TP")
          /\ sim.trades_log[2].price =
                (IF sim.trades_log[1].side = "B" THEN Norm(105 * sim.hi_price, 100)
                                                 ELSE Norm(95 * sim.lo_price, 100))
    /\ (strategy = "LinReg" /\ sim.pc = "raised" /\ sim.exc = "AttributeError"
                            /\ LR_BothHit(LRTrades[1].side, RInt(df.cur.Close))) =>
          /\ Len(LRTrades) = 2
          /\ LRTrades[2].comment =
                (IF LRTrades[1].side = "B" THEN "Close long: TP" ELSE "Close short: TP")
          /\ LRTrades[2].price = sim.lr_med

C10_Witness ==
    /\ strategy = "ORB"
    /\ Len(sim.trades_log) = 2
    /\ sim.trades_log[1].side = "B"
    /\ ORB_BothHit("B", df.cur)
    /\ sim.trades_log[2].comment = "Close long: TP"

C10_Reach_ORB_short ==
    /\ strategy = "ORB"
    /\ Len(sim.trades_log) = 2
    /\ sim.trades_log[1].side = "S"
    /\ ORB_BothHit("S", df.cur)

C10_Reach_LR_long ==
    /\ strategy = "LinReg" /\ sim.pc = "raised" /\ sim.exc = "AttributeError"
    /\ LRTrades[1].side = "B"
    /\ LR_BothHit("B", RInt(df.cur.Close))

C10_Reach_LR_short ==
    /\ strategy = "LinReg" /\ sim.pc = "raised" /\ sim.exc = "AttributeError"
    /\ LRTrades[1].side = "S"
    /\ LR_BothHit("S", RInt(df.cur.Close))

\* ----------------------------------------------------------------- C11
LRLogged(l) == IF HasKey(l.trades, "AAA") THEN Len(l.trades["AAA"]) ELSE 0

\* C11 as stated: exit predicates run only on bars after the entry bar, so
\* no iteration of the bar loop both opens and closes a position, in
\* OpenRangeBreakout.simulate_intraday, LinRegSigmaStrategy.simulate_intraday
\* and backtest().
C11_Original ==
    [][/\ strategy = "ORB" =>
            ~(Len(sim.trades_log) = 0 /\ Len(sim'.trades_log) = 2)
       /\ strategy = "LinReg" =>
            LRLogged(ledger') - LRLogged(ledger) < 2
       /\ strategy = "backtest" =>
            ~(sim.open_price = EmptyStr /\ sim'.open_price # EmptyStr /\ sim'.pc = "break")
      ]_vars

\* Reached: each of the three loops opens and closes on one bar
C11_Reach_ORB ==
    /\ strategy = "ORB"
    /\ Len(sim.trades_log) = 2
    /\ sim.i = 1
C11_Reach_LR ==
    /\ strategy = "LinReg"
    /\ LRLogged(pre_ledger) = 0
    /\ LRLogged(ledger) = 2
C11_Reach_BT ==
    /\ strategy = "backtest"
    /\ sim.i = 1
    /\ sim.open_price # EmptyStr
    /\ sim.pc = "break"

\* ----------------------------------------------------------------- C12
\* close_price / avg_price - 1 for a long, 1 - close_price / avg_price for a
\* short, from the opening and the closing trade of a round trip
RealizedReturn(open_trade, close_trade) ==
    IF open_trade.side = "B" THEN RSub(RDiv(close_trade.price, open_trade.price), RInt(1))
                             ELSE RSub(RInt(1), RDiv(close_trade.price, open_trade.price))

\* The closing trade offsets the opening one in full
Offsets(open_trade, close_trade) ==
    /\ close_trade.side # open_trade.side
    /\ close_trade.volume = open_trade.volume

\* C12 as stated: on a qualifying exit of simulate_intraday the closing trade
\* has the opposite side and the position's volume, the position is FLAT
\* afterwards, and the call returns the realized return of that close
\* against the entry average price.
C12_Original ==
    /\ (strategy = "ORB" /\ Len(sim.trades_log) = 2) =>
          /\ Offsets(sim.trades_log[1], sim.trades_log[2])
          /\ sim.position = None
          /\ sim.pc \in {"break", "returned"}
          /\ sim.final_return = RealizedReturn(sim.trades_log[1], sim.trades_log[2])
    /\ (strategy = "LinReg" /\ LRLogged(ledger) = 2) =>
          /\ Offsets(LRTrades[1], LRTrades[2])
          /\ ledger.position["AAA"] = None
          /\ sim.pc \in {"break", "returned"}
          /\ sim.final_return = RealizedReturn(LRTrades[1], LRTrades[2])

\* Reached: an exit of LinRegSigmaStrategy leaves a Position of volume 0 in
\* self.position and the call raises
C12_Reach_LR ==
    /\ strategy = "LinReg"
    /\ LRLogged(ledger) = 2
    /\ Offsets(LRTrades[1], LRTrades[2])
    /\ ledger.position["AAA"] # None
    /\ ledger.position["AAA"].volume = 0
    /\ sim.pc = "raised"
    /\ sim.exc = "AttributeError"
C12_Reach_ORB ==
    /\ strategy = "ORB"
    /\ Len(sim.trades_log) = 2
    /\ Offsets(sim.trades_log[1], sim.trades_log[2])
    /\ sim.position # None
    /\ sim.position.volume = 0
    /\ sim.pc = "raised"
    /\ sim.exc = "AttributeError"

\* ----------------------------------------------------------------- C13
\* backtest() left its bar loop at the guard on row i + 1, df.cur being the
\* last row of the date
BT_Exhausted ==
    /\ strategy = "backtest"
    /\ sim.pc = "break"
    /\ sim.i >= df.n - 1

\* C13 as stated: when the date's bars are exhausted with the position still
\* open, the value returned (OpenRangeBreakout.simulate_intraday) or recorded
\* (backtest()) is the floating return on the last bar's close.
C13_Original ==
    /\ (strategy = "ORB" /\ Len(sim.trades_log) = 1 /\ sim.pc \in {"returned", "raised"}) =>
          /\ sim.pc = "returned"
          /\ sim.final_return =
                (IF sim.trades_log[1].side = "B"
                 THEN RSub(RDiv(RInt(df.cur.Close), sim.trades_log[1].price), RInt(1))
                 ELSE RSub(RInt(1), RDiv(RInt(df.cur.Close), sim.trades_log[1].price)))
    /\ (BT_Exhausted /\ sim.open_price # EmptyStr) =>
          sim.date_stats = BT_return(sim, RInt(df.cur.Close))

\* Reached: OpenRangeBreakout raises on the floating branch of the last bar;
\* backtest() records the return on the close of the bar before the last
C13_Reach_ORB ==
    /\ strategy = "ORB"
    /\ Len(sim.trades_log) = 1
    /\ sim.i = df.n - 1
    /\ sim.pc = "raised"
    /\ sim.exc = "AttributeError"
C13_Reach_BT ==
    /\ BT_Exhausted
    /\ sim.open_price # EmptyStr
    /\ sim.date_stats # BT_return(sim, RInt(df.cur.Close))

\* ----------------------------------------------------------------- C14
\* 0.8 * Open + 0.2 * High (long) or Low (short) of a row
Interpolated(row, side) ==
    IF side \in {"B", "long"} THEN Norm(8 * row.Open + 2 * row.High, 10)
                              ELSE Norm(8 * row.Open + 2 * row.Low, 10)

\* The iteration that has just opened a position (df.cur is the triggering
\* row i; an exit on the same row does not advance i)
ORB_JustOpened ==
    /\ strategy = "ORB"
    /\ Len(sim.trades_log) >= 1
    /\ df.cur # NoBar
    /\ df.prev # NoBar
BT_JustOpened ==
    /\ strategy = "backtest"
    /\ sim.open_price # EmptyStr
    /\ df.next # NoBar

\* C14 as stated: the entry price of a position opened on triggering bar i is
\* 0.8 * open(i) + 0.2 * high(i) for a long and 0.8 * open(i) + 0.2 * low(i)
\* for a short.
C14_Original ==
    /\ ORB_JustOpened =>
          sim.trades_log[1].price = Interpolated(df.cur, sim.trades_log[1].side)
    /\ BT_JustOpened =>
          sim.open_price = Interpolated(df.cur, sim.direction)

\* C14 amended: the entry price is interpolated from the bar after the
\* triggering bar, 0.8 * open(i+1) + 0.2 * high(i+1) for a long and
\* 0.8 * open(i+1) + 0.2 * low(i+1) for a short; OpenRangeBreakout falls back
\* to close(i) when bar i is the last one, and backtest() never enters on the
\* last bar.  The Position and the opening trade carry that price.
C14_EntryFromNextBar ==
    /\ ORB_JustOpened =>
          /\ sim.trades_log[1].price =
                (IF sim.i + 1 < df.n
                 THEN Interpolated(df.next, sim.trades_log[1].side)
                 ELSE RInt(df.cur.Close))
          /\ sim.position # None
          /\ Len(sim.trades_log) = 1 => sim.position.price = sim.trades_log[1].price
    /\ BT_JustOpened =>
          /\ sim.open_price = Interpolated(df.next, sim.direction)
          /\ sim.i <= df.n - 1

C14_Witness ==
    /\ ORB_JustOpened
    /\ sim.i + 1 < df.n
    /\ sim.trades_log[1].side = "S"
    /\ sim.trades_log[1].price = Interpolated(df.next, "S")
    /\ sim.trades_log[1].price # Interpolated(df.cur, "S")
    /\ sim.trades_log[1].price.d > 1

C14_Reach_BT ==
    /\ BT_JustOpened
    /\ sim.direction = "long"
    /\ sim.open_price # Interpolated(df.cur, "long")
C14_Reach_ORB_fallback ==
    /\ ORB_JustOpened
    /\ sim.i + 1 = df.n
    /\ sim.trades_log[1].price = RInt(df.cur.Close)
    /\ sim.trades_log[1].price # Interpolated(df.cur, sim.trades_log[1].side)

\* ----------------------------------------------------------------- C15
\* The position simulate_intraday computes its return against: the one the
\* exit block has just handled
LR_ZeroPricePosition ==
    /\ strategy = "LinReg"
    /\ HasKey(ledger.position, "AAA")
    /\ ledger.position["AAA"] # None
    /\ ledger.position["AAA"].price = RZero
    /\ sim.pc # "idle"
    /\ ~(sim.pc = "loop" /\ sim.i = 0)

\* C15 as stated: with an average entry price of 0 the return computation of
\* simulate_intraday fails with an explicit division-by-zero / invalid-price
\* error, and no NaN or infinite value is returned.
C15_Original ==
    LR_ZeroPricePosition =>
        /\ sim.pc = "raised"
        /\ sim.exc \in {"ZeroDivisionError", "InvalidPrice"}

\* Reached: a position opened at a close of 0 fails on the missing avg_price
\* attribute like any other position, not on a check of the price
C15_Reach ==
    /\ LR_ZeroPricePosition
    /\ LRLogged(pre_ledger) = 0
    /\ sim.pc = "raised"
    /\ sim.exc = "AttributeError"

\* ----------------------------------------------------------------- C16
\* An opening trade of LinRegSigmaStrategy.simulate_intraday is in the log
LR_Opened ==
    /\ strategy = "LinReg"
    /\ HasKey(ledger.trades, "AAA")
    /\ \E k \in 1..Len(LRTrades) :
          LRTrades[k].comment \in {"Open long LR strategy intraday",
                                   "Open short LR strategy intraday"}

ZeroBand == sim.sigma_med = RZero \/ sim.sigma_long = RZero

\* C16 as stated: with sigma_med = 0 or sigma_long = 0
\* LinRegSigmaStrategy.simulate_intraday opens no position on any bar.
C16_Original ==
    (strategy = "LinReg" /\ ZeroBand) => ~LR_Opened

\* Reached: both bands 0, and a close below both regression lines opens a long
C16_Reach ==
    /\ LR_Opened
    /\ sim.sigma_med = RZero
    /\ sim.sigma_long = RZero
    /\ LRTrades[1].side = "B"
    /\ RLt(LRTrades[1].price, sim.lr_med)

\* ----------------------------------------------------------------- C17
\* C17 as stated: on the closes [105, 95, 94, 100] with medium band 100 +/- 2
\* and long band 99 +/- 3, started FLAT, the call opens a short on bar 1 at
\* 105, keeps it through bars 2 and 3, closes it by take-profit on bar 4 and
\* returns 1 - close / avg_price.
C17_Original ==
    (df.closes = ExampleCloses /\ sim.pc \in {"returned", "raised"}) =>
        /\ sim.pc = "returned"
        /\ Len(LRTrades) = 2
        /\ LRTrades[1].comment = "Open short LR strategy intraday"
        /\ LRTrades[1].price = RInt(105)
        /\ LRTrades[2].comment = "Close short: TP"
        /\ sim.final_return = RSub(RInt(1), RDiv(LRTrades[2].price, LRTrades[1].price))

\* Reached: on those closes no bar opens a position (105 is not above the
\* long band 99 + 2 * 3) and the call returns 0.0
C17_Reach_NoTrade ==
    /\ df.closes = ExampleCloses
    /\ sim.pc = "returned"
    /\ sim.i = 4
    /\ LRTrades = <<>>
    /\ ledger.position["AAA"] = None
    /\ sim.final_return = RZero
\* Reached: with a first close of 106 the short does open, and the call
\* raises on position.avg_price on that bar
C17_Reach_Raised ==
    /\ df.closes # <<>>
    /\ df.closes[1] = 106
    /\ sim.i = 0
    /\ sim.pc = "raised"
    /\ LRTrades[1].comment = "Open short LR strategy intraday"
    /\ sim.exc = "AttributeError"

\* ----------------------------------------------------------------- C18
\* The sign of the realized return of a round trip is the sign of the
\* realized pnl Position.reduce stamps on the closing trade (volume 1)
ProfitOrFlat(close_trade) == RLe(RZero, close_trade.realized_pnl)
LossOrFlat(close_trade) == RLe(close_trade.realized_pnl, RZero)

SignMatchesBranch(close_trade) ==
    /\ close_trade.comment \in TpComments => ProfitOrFlat(close_trade)
    /\ close_trade.comment \in SlComments => LossOrFlat(close_trade)

\* C18 as stated: every take-profit exit of simulate_intraday realizes a
\* return >= 0 and every stop-loss exit a return <= 0, for long and short, in
\* OpenRangeBreakout and in LinRegSigmaStrategy.
C18_Original ==
    /\ (strategy = "ORB" /\ Len(sim.trades_log) = 2) =>
          SignMatchesBranch(sim.trades_log[2])
    /\ (strategy = "LinReg" /\ LRLogged(ledger) = 2) =>
          SignMatchesBranch(LRTrades[2])

\* Reached: a take-profit exit at a loss (the entry was filled on the next
\* bar above the take-profit level), and a stop-loss exit at a profit
C18_Reach_ORB_TpLoss ==
    /\ strategy = "ORB"
    /\ Len(sim.trades_log) = 2
    /\ sim.trades_log[2].comment = "Close long: TP"
    /\ RLt(sim.trades_log[2].realized_pnl, RZero)
C18_Reach_ORB_SlProfit ==
    /\ strategy = "ORB"
    /\ Len(sim.trades_log) = 2
    /\ sim.trades_log[2].comment = "Close short: SL"
    /\ RLt(RZero, sim.trades_log[2].realized_pnl)
C18_Reach_LR_SlProfit ==
    /\ strategy = "LinReg"
    /\ LRLogged(ledger) = 2
    /\ LRLogged(pre_ledger) = 0
    /\ LRTrades[2].comment = "Close long: SL"
    /\ RLt(RZero, LRTrades[2].realized_pnl)
C18_Reach_LR_TpLoss ==
    /\ strategy = "LinReg"
    /\ LRLogged(ledger) = 2
    /\ LRTrades[2].comment = "Close short: TP"
    /\ RLt(LRTrades[2].realized_pnl, RZero)

\* ======================================================================
\* Properties of the driver loop (SpecDriver)
\* ======================================================================
\* C19 as stated: the driver loop has at most one historical-data request
\* outstanding at any time, under every interleaving with the callback
\* thread, error callbacks with reqId -1 or code 2176 included.
C19_Original == Cardinality(Outstanding) <= 1

\* Reached: a connection notice wakes the driver, which skips the item and
\* requests the next one while the first request is still unanswered
C19_Reach ==
    /\ Cardinality(Outstanding) = 2
    /\ broker.notices = 1
    /\ HasKey(run.results, 1)
    /\ run.results[1] = "0"

\* C20 as stated: whenever the driver reads app.data[reqID] for the request
\* it has just waited on (skip not set), the callback thread has already
\* delivered historicalDataEnd for that reqID, so the buffer read holds all
\* of the request's bars and is not written again afterwards.
C20_Original ==
    \A r \in DOMAIN run.reads :
        /\ run.reads[r].done
        /\ broker.reqs[r].kind = "data"
        /\ run.reads[r].intraday_data =
              (IF HasKey(app.data, r) THEN app.data[r] ELSE None)

\* app.data is written by the callback thread only: no step of the driver
\* loop changes it
DriverStep ==
    RunClear \/ RunRequest \/ RunWait \/ RunCheckSkip \/ RunSleep \/ RunRead
C20_SingleWriter == [][DriverStep => app'.data = app.data]_vars

\* Reached: after warning 2176 the driver reads a buffer that the callback
\* thread goes on to fill
C20_Reach ==
    /\ \E r \in DOMAIN run.reads :
          /\ ~run.reads[r].done
          /\ run.reads[r].intraday_data # None
          /\ HasKey(app.data, r)
          /\ app.data[r].n > run.reads[r].intraday_data.n
    /\ broker.notices = 0

\* The request of reqID r has been answered by an error callback for r, or by
\* historicalDataEnd without any bar
AnsweredByError(r) ==
    /\ HasKey(broker.reqs, r)
    /\ broker.reqs[r].done
    /\ broker.reqs[r].kind = "error"
AnsweredEmpty(r) ==
    /\ HasKey(broker.reqs, r)
    /\ broker.reqs[r].done
    /\ broker.reqs[r].kind = "data"
    /\ ~HasKey(app.data, r)

\* The driver finishes the iteration of the current item
ItemFinished == run'.item = run.item + 1

\* The iteration of an item whose request was answered by an error or without
\* bars ends with results[date][ticker] == 0 and the skip flag cleared
C21_RecordStep ==
    (ItemFinished /\ (AnsweredByError(run.reqID) \/ AnsweredEmpty(run.reqID)))
        => (run'.results[run.item] = "0" /\ ~app'.skip)

\* When the loop is over, results has an entry for every (date, ticker)
C21_CoverageStep ==
    run'.pc \in {"done", "raised"} => \A k \in 1..run.items : HasKey(run'.results, k)

\* C21 as stated: in Backtester.run and OpenRangeBreakout.run_strategy a
\* (date, ticker) whose request is answered by a broker error (code other
\* than 2176) or returns no bars is recorded as results[date][ticker] == 0,
\* the skip flag is cleared and the loop continues with the next item; when
\* the loop ends, results has an entry for every (date, ticker).
C21_Original == [][C21_RecordStep /\ C21_CoverageStep]_vars

\* Reached: the error of the last item arrived after warning 2176 had woken
\* the driver; the item is recorded as 0 and the loop is over with skip set
C21_Reach_SkipLeftSet ==
    /\ run.pc = "done"
    /\ app.skip
    /\ broker.notices = 0
    /\ AnsweredByError(run.reqID - 1)
    /\ run.results[run.items] = "0"

\* Reached: the skip flag left by a late error zeroes the next item, whose
\* request the broker answers with bars
C21_Reach_NextItemZeroed ==
    /\ broker.notices = 0
    /\ \E k \in 2..run.items :
          /\ HasKey(run.results, k)
          /\ run.results[k] = "0"
          /\ AnsweredByError(FirstReqID(run.driver) + k - 2)
          /\ HasKey(broker.reqs, FirstReqID(run.driver) + k - 1)
          /\ broker.reqs[FirstReqID(run.driver) + k - 1].kind = "data"
          /\ HasKey(app.data, FirstReqID(run.driver) + k - 1)
          /\ ~HasKey(run.reads, FirstReqID(run.driver) + k - 1)

\* Reached: the loop is left by an exception with items unrecorded, one of
\* them answered by an error
C21_Reach_Raised ==
    /\ run.pc = "raised"
    /\ ~HasKey(run.results, run.items)
    /\ AnsweredByError(run.reqID - 1)

\* The items whose iteration is over, and those left by `if app.skip: continue`
ScriptFinished == {k \in 1..run.items : k < run.item}
ScriptSkipped == {k \in ScriptFinished : ~HasKey(run.reads, k)}

\* C22 as stated: in backtest() a (date, ticker) whose request is answered by
\* a broker error, and one whose request returns no bars, are both recorded
\* in date_stats[date][ticker] as a zero return, and the skip flag set by the
\* error does not cause any later item to be skipped.
C22_Original ==
    /\ \A k \in ScriptFinished :
          (broker.reqs[k].done /\ (broker.reqs[k].kind = "error" \/ broker.reqs[k].bars = 0))
              => (HasKey(run.results, k) /\ run.results[k] = "0")
    /\ \A k \in ScriptSkipped : broker.reqs[k].kind = "error" \/ broker.reqs[k].warned

\* Reached: the loop is over, the only item was answered by an error and
\* date_stats has no entry for it; skip is still set
C22_Reach_ErrorUnrecorded ==
    /\ run.pc = "done"
    /\ run.items = 1
    /\ broker.reqs[1].kind = "error"
    /\ ~broker.reqs[1].warned
    /\ run.results = EmptyDict
    /\ app.skip
    /\ run.reqID = 1000

\* Reached: an item answered by historicalDataEnd without bars has no entry
C22_Reach_EmptyUnrecorded ==
    /\ run.pc = "done"
    /\ run.items = 1
    /\ broker.reqs[1].kind = "data"
    /\ broker.reqs[1].bars = 0
    /\ ~broker.reqs[1].warned
    /\ run.results = EmptyDict
    /\ run.reqID = 1001

\* Reached: the second item is skipped by the late error of the first, before
\* the broker has answered its own request with bars
C22_Reach_LaterItemSkipped ==
    /\ 2 \in ScriptSkipped
    /\ broker.reqs[1].kind = "error"
    /\ broker.reqs[2].kind = "data"
    /\ ~broker.reqs[2].warned
    /\ broker.reqs[2].bars > 0
    /\ broker.reqs[2].bars_left = broker.reqs[2].bars

\* The driver loop under the hypothesis of C23: the driver thread keeps
\* running and the broker eventually delivers the bars and the
\* historicalDataEnd or the error of every request
BrokerAnswers == CbHistoricalData \/ CbHistoricalDataEnd \/ CbError
SpecDriverFair ==
    /\ DriverInit
    /\ [][DriverNext]_vars
    /\ WF_vars(DriverStep)
    /\ WF_vars(BrokerAnswers)

\* One request was issued for every (date, ticker), with reqIDs in sequence
OneRequestPerItem ==
    DOMAIN broker.reqs =
        {FirstReqID(run.driver) + k - 1 : k \in 1..run.items}

C23_Ends == <>(run.pc \in {"done", "raised"})
C23_NoRetry ==
    /\ Cardinality(DOMAIN broker.reqs) <= run.item
    /\ \A r \in DOMAIN broker.reqs : r < FirstReqID(run.driver) + run.items

\* Reached: Backtester.run has left the loop by the TypeError of its
\* simulate_intraday call on the first item's bars; the second item was never
\* requested
C23_Reach_Aborted ==
    /\ run.driver = "Backtester.run"
    /\ run.pc = "raised"
    /\ run.exc = "TypeError"
    /\ run.items = 2
    /\ DOMAIN broker.reqs = {1000}
    /\ broker.reqs[1000].done
    /\ broker.notices = 0

\* Reached: every request failed or was empty and the loop ended normally
C23_Reach_AllFailed ==
    /\ run.driver = "Backtester.run"
    /\ run.pc = "done"
    /\ run.items = 2
    /\ OneRequestPerItem
    /\ \E r \in DOMAIN broker.reqs : broker.reqs[r].kind = "error"

\* K of the function that was called
TopK == IF fn.name = "topGap" THEN 2 ELSE 5

\* The k-th ticker of the dataset, by name
KeyOf(data, name) == CHOOSE k \in 1..Len(data.tickers) : data.tickers[k] = name

\* universe is the top-K list of the date: the min(K, symbols with data)
\* symbols with the highest gap, in descending gap order
IsTopK(data, date, universe, K) ==
    LET with == WithDate(data, date)
        sel == {KeyOf(data, universe[i]) : i \in 1..Len(universe)}
        gap(k) == data.rows[k].gap[date]
    IN  /\ Len(universe) = Min(K, Cardinality(with))
        /\ Cardinality(sel) = Len(universe)
        /\ sel \subseteq with
        /\ \A i \in 1..Len(universe) - 1 :
              gap(KeyOf(data, universe[i])) >= gap(KeyOf(data, universe[i + 1]))
        /\ \A s \in sel, u \in with \ sel : gap(u) <= gap(s)

UniverseReturned ==
    fn.name \in {"get_trade_universe_by_date", "topGap"} /\ fn.exc = "none"

\* C24 as stated: for every date, the open-range-breakout universe is exactly
\* the min(K, number of symbols with data on that date) symbols with the
\* highest gap, listed in descending gap order (K = 5 in
\* get_trade_universe_by_date, K = 2 in topGap): every selected symbol has
\* data on that date, a symbol missing on that date is never selected, and no
\* unselected symbol with data has a larger gap than a selected one.
C24_Original ==
    UniverseReturned =>
        \A date \in AllDates(fn.arg) :
            /\ HasKey(fn.out, date)
            /\ IsTopK(fn.arg, date, fn.out[date], TopK)

\* The same for the dates the function returns a universe for
C24_ReturnedDates ==
    UniverseReturned =>
        \A date \in DOMAIN fn.out : IsTopK(fn.arg, date, fn.out[date], TopK)

\* get_trade_universe_by_date alone satisfies C24
C24_ORB ==
    fn.name = "get_trade_universe_by_date" =>
        \A date \in AllDates(fn.arg) :
            /\ HasKey(fn.out, date)
            /\ IsTopK(fn.arg, date, fn.out[date], 5)

\* Reached: topGap returns no universe for a date on which two symbols have
\* data, the first symbol of the dataset having none
C24_Reach_DateDropped ==
    /\ fn.name = "topGap"
    /\ fn.exc = "none"
    /\ Cardinality(WithDate(fn.arg, 2)) = 2
    /\ ~HasKey(fn.out, 2)
    /\ HasKey(fn.out, 1)

\* Reached: six symbols have data and get_trade_universe_by_date keeps five,
\* leaving out one with the lowest gap; topGap keeps two of three
C24_Reach_ORB_Truncated ==
    /\ fn.name = "get_trade_universe_by_date"
    /\ Cardinality(WithDate(fn.arg, 1)) = 6
    /\ Len(fn.out[1]) = 5
    /\ fn.arg.rows[1].gap[1] = 1
    /\ fn.arg.rows[2].gap[1] = 3
    /\ fn.out[1][1] = "BBB"
C24_Reach_TopGap_Truncated ==
    /\ fn.name = "topGap"
    /\ fn.exc = "none"
    /\ Cardinality(WithDate(fn.arg, 1)) = 3
    /\ HasKey(fn.out, 1)
    /\ Len(fn.out[1]) = 2
    /\ fn.arg.rows[1].gap[1] = 1
    /\ "AAA" \notin {fn.out[1][i] : i \in 1..2}

\* The (date, position) entries of a result matrix, and their values
Entries(m) == UNION {{<<d, k>> : k \in 1..Len(m[d])} : d \in 1..Len(m)}
Positive(m) == {e \in Entries(m) : m[e[1]][e[2]].ret.n > 0}
Negative(m) == {e \in Entries(m) : m[e[1]][e[2]].ret.n < 0}

\* C25: for a result matrix with at least one non-zero entry, the win rate
\* equals 100 x (number of strictly positive entries) / (number of strictly
\* positive + number of strictly negative entries), zero entries being counted
\* in neither.
C25_WinRate ==
    (fn.name = "win_rate" /\ Positive(fn.arg) \cup Negative(fn.arg) # {})
        => /\ fn.exc = "none"
           /\ fn.out = Norm(100 * Cardinality(Positive(fn.arg)),
                            Cardinality(Positive(fn.arg)) + Cardinality(Negative(fn.arg)))

\* Reached: {d1: {AAA: 0.05, BBB: -0.02}, d2: {AAA: 0.0}} gives 50
C25_Witness ==
    /\ fn.name = "win_rate"
    /\ fn.arg = << <<[ticker |-> "AAA", ret |-> Norm(5, 100)],
                     [ticker |-> "BBB", ret |-> Norm(-2, 100)]>>,
                   <<[ticker |-> "AAA", ret |-> RZero]>> >>
    /\ fn.exc = "none"
    /\ fn.out = RInt(50)

\* C26 as stated: the win rate of a result matrix with no strictly positive
\* and no strictly negative entry (all zero or empty) is 0.0, the mean return
\* of winners is 0 when there is no strictly positive entry, and the mean
\* return of losers is 0 when there is no strictly negative entry; none of the
\* three fails.
C26_Original ==
    /\ (fn.name = "win_rate" /\ Positive(fn.arg) \cup Negative(fn.arg) = {})
          => (fn.exc = "none" /\ fn.out = RZero)
    /\ (fn.name = "mean_ret_winner" /\ Positive(fn.arg) = {})
          => (fn.exc = "none" /\ fn.out = RZero)
    /\ (fn.name = "mean_ret_loser" /\ Negative(fn.arg) = {})
          => (fn.exc = "none" /\ fn.out = RZero)

\* Reached: win_rate of an all-zero matrix raises ZeroDivisionError
C26_Reach_WinRate ==
    /\ fn.name = "win_rate"
    /\ fn.arg = << <<[ticker |-> "AAA", ret |-> RZero]>> >>
    /\ fn.exc = "ZeroDivisionError"

\* Reached: so does mean_ret_winner without a winner, a loser being present
C26_Reach_Winner ==
    /\ fn.name = "mean_ret_winner"
    /\ Positive(fn.arg) = {}
    /\ Negative(fn.arg) # {}
    /\ fn.exc = "ZeroDivisionError"

\* Reached: and mean_ret_loser without a loser, a winner being present
C26_Reach_Loser ==
    /\ fn.name = "mean_ret_loser"
    /\ Negative(fn.arg) = {}
    /\ Positive(fn.arg) # {}
    /\ fn.exc = "ZeroDivisionError"

\* The mean of a date's symbol returns, and the product over the dates of
\* (1 + mean), taken from the first date on
RECURSIVE SumOfReturns(_, _)
SumOfReturns(day, k) == IF k = 0 THEN RZero ELSE RAdd(SumOfReturns(day, k - 1), day[k].ret)
MeanOfDate(day) == RDiv(SumOfReturns(day, Len(day)), RInt(Len(day)))
RECURSIVE ProductOfDates(_, _)
ProductOfDates(m, d) ==
    IF d = 0 THEN ROne
    ELSE RMul(ProductOfDates(m, d - 1), RAdd(ROne, MeanOfDate(m[d])))

\* The same matrix with the symbols of every date in the opposite order
SymbolsReversed(m) ==
    [d \in 1..Len(m) |-> [k \in 1..Len(m[d]) |-> m[d][Len(m[d]) + 1 - k]]]

\* A matrix with at least one date, every date having at least one symbol
\* return (so that each date's mean is defined)
EveryDateHasReturns(m) == Len(m) >= 1 /\ \A d \in 1..Len(m) : m[d] # <<>>

C27_Reach_LastDateEmpty ==
    /\ fn.name = "abs_return"
    /\ Len(fn.arg) = 2
    /\ fn.arg[1] # <<>>
    /\ fn.arg[2] = <<>>
    /\ fn.out = NaN
C27_Reach_EmptyMatrix ==
    /\ fn.name = "abs_return"
    /\ fn.arg = <<>>
    /\ fn.exc = "IndexError"

\* a is an initial segment of b
IsPrefix(a, b) == Len(a) <= Len(b) /\ SubSeq(b, 1, Len(a)) = a

\* Every per-symbol trade log keeps what it held, in the same order
C28_AppendOnlyStep ==
    \A tk \in DOMAIN ledger.trades :
        /\ HasKey(ledger'.trades, tk)
        /\ IsPrefix(ledger.trades[tk], ledger'.trades[tk])

\* An add_position / reduce_position call that changed the symbol's position
\* has appended its trade, once, to the symbol's log
C28_AppliedLoggedStep ==
    (/\ op' \in {"add", "reduce"}
     /\ calls' = calls + 1
     /\ HasKey(ledger.position, ticker')
     /\ ledger'.position[ticker'] # ledger.position[ticker'])
        => /\ HasKey(ledger'.trades, ticker')
           /\ ledger'.trades[ticker'] = Append(ledger.trades[ticker'], trade')
           /\ Cardinality({k \in 1..Len(ledger'.trades[ticker']) :
                              ledger'.trades[ticker'][k].timestamp = trade'.timestamp}) = 1

\* C28 as stated: each per-symbol trade log is append-only across any sequence
\* of prepare_data, simulate_intraday, add_position, reduce_position and
\* finalize_positions calls: a recorded trade is never removed, replaced or
\* reordered, and every trade applied through add_position or reduce_position
\* appears in that symbol's log exactly once.
C28_Original == [][C28_AppendOnlyStep /\ C28_AppliedLoggedStep]_vars

\* The first half alone: no call removes, replaces or reorders a logged trade
C28_AppendOnly == [][C28_AppendOnlyStep]_vars

\* Reached: reduce_position has closed the position and stamped the trade,
\* then raised KeyError on self.pnl[ticker]; the trade is in no log
C28_Reach_AppliedUnlogged ==
    /\ op = "reduce"
    /\ exc = "KeyError"
    /\ HasKey(pre_ledger.position, ticker)
    /\ pre_ledger.position[ticker] # None
    /\ ledger.position[ticker] = None
    /\ ledger.trades = pre_ledger.trades
    /\ Len(ledger.trades[ticker]) = 1

\* Reached: prepare_data on a ledger that holds a logged trade raises
\* AttributeError and leaves the log as it was
C28_Reach_PrepareData ==
    /\ op = "prepare_data"
    /\ exc = "AttributeError"
    /\ \E tk \in DOMAIN ledger.trades : Len(ledger.trades[tk]) = 1
    /\ ledger = pre_ledger

\* Reached: with pnl registered the reducing trade is logged after the
\* opening one
C28_Reach_Logged ==
    /\ op = "reduce"
    /\ exc = "none"
    /\ Len(ledger.trades[ticker]) = 2
    /\ ledger.trades[ticker][2] = trade
    /\ ledger.pnl[ticker] = <<trade>>

\* C29: a Trade is immutable apart from the PnL stamp.  Whatever the position
\* and the trade, Position.add returns with the trade as it was, and
\* Position.reduce with the trade as it was except for realized_pnl; contract,
\* price, volume, side, timestamp and comment are unchanged and no attribute is
\* added, in the success and in the failure path, where nothing is stamped.
C29_TradeFrame ==
    \A t \in TradeInputs(calls + 1) :
        LET a == Position_add(pos, t)
            r == Position_reduce(pos, t)
        IN  /\ a.trade = t
            /\ DOMAIN r.trade = DOMAIN t
            /\ [r.trade EXCEPT !.realized_pnl = t.realized_pnl] = t
            /\ r.exc # "none" => r.trade = t

\* Reached: a reduce has stamped a non-zero realized_pnl on its trade, whose
\* other fields are those of a fill just created
C29_Witness ==
    /\ op = "reduce"
    /\ exc = "none"
    /\ trade.realized_pnl # RZero
    /\ [trade EXCEPT !.realized_pnl = RZero] \in TradeInputs(calls)

\* C30: after any sequence of successful Position.add and Position.reduce
\* calls (flips and reductions to zero included) the position's signed volume
\* (+volume when side is B, -volume when side is S) equals the signed opening
\* volume plus the sum of the signed volumes of all applied trades.
C30_SignedVolume ==
    SignedVolume(pos) =
        (IF hist.open_side = "B" THEN hist.open_volume ELSE -hist.open_volume) + hist.signed

\* The same on each call: a successful call moves the signed volume by the
\* signed volume of its trade
C30_Step ==
    [][(calls' = calls + 1 /\ exc' = "none")
          => SignedVolume(pos') = SignedVolume(pos) + SignedVolume(trade')]_vars

\* Reached: a long position reduced to zero and then flipped short by a
\* second sell
C30_Witness ==
    /\ calls = 2
    /\ op = "reduce"
    /\ exc = "none"
    /\ hist.reduces = 2
    /\ hist.open_side = "B"
    /\ pre.volume = 0
    /\ pre.side = "B"
    /\ pos.side = "S"
    /\ pos.volume > 0
    /\ hist.signed = -(hist.open_volume + pos.volume)

\* ======================================================================
\* C31: request ids within one run of a driver loop
\* ======================================================================
\* The bars the connection thread has delivered for the request of item k
DeliveredFor(k) == broker.reqs[k].bars - broker.reqs[k].bars_left

\* The requests of backtest() issued with a reqId an earlier request used
ReusedIds ==
    {k \in DOMAIN broker.reqs :
        \E j \in DOMAIN broker.reqs : j < k /\ broker.reqs[j].reqId = broker.reqs[k].reqId}

\* C31 as stated: within one run of a driver loop every intraday request is
\* issued with a request id that no earlier request of that run used, on
\* every path through the loop body including the error path and the
\* empty-data path; hence the buffer app.data[reqID] read for a (date,
\* ticker) contains only bars delivered for that item's own request.
C31_Original ==
    /\ ReusedIds = {}
    /\ \A k \in DOMAIN run.reads :
          run.reads[k].intraday_data # None
              => run.reads[k].intraday_data.n <= DeliveredFor(k)

\* Backtester.run and run_strategy do issue every request with a fresh id
C31_DriverFreshIds == [][RunRequest => ~HasKey(broker.reqs, run.reqID)]_vars

\* Reached: the first item of backtest() was answered by an error, and the
\* second request went out with its reqId, 1000
C31_Reach_IdReused ==
    /\ HasKey(broker.reqs, 2)
    /\ broker.reqs[1].kind = "error"
    /\ ~broker.reqs[1].warned
    /\ broker.reqs[1].reqId = 1000
    /\ broker.reqs[2].reqId = 1000

\* Reached: the frame read for the second item holds bars of the first
\* item's request
C31_Reach_ForeignBars ==
    /\ HasKey(run.reads, 2)
    /\ run.reads[2].intraday_data # None
    /\ run.reads[2].intraday_data.n > DeliveredFor(2)
    /\ broker.reqs[1].bars > 0
    /\ broker.notices = 0

\* ======================================================================
\* C32: BaseStrategy.finalize_positions
\* ======================================================================
\* The tickers that held a position with volume > 0 before the call
OpenBefore ==
    {t \in DOMAIN pre_ledger.position :
        pre_ledger.position[t] # None /\ pre_ledger.position[t].volume > 0}

\* The trade that closes position p of ticker t at its last daily close
IsFinalClose(tr, t, p) ==
    /\ tr.contract = t
    /\ tr.side = (IF p.side = "B" THEN "S" ELSE "B")
    /\ tr.volume = p.volume
    /\ HasKey(fn.arg, t) => tr.price = fn.arg[t]
    /\ tr.realized_pnl =
          RMulI(IF p.side = "B" THEN RSub(tr.price, p.price) ELSE RSub(p.price, tr.price),
                p.volume)

\* C32 as stated: finalize_positions closes all remaining open positions:
\* for every ticker that held a position with volume > 0 it appends exactly
\* one closing trade of the opposite side, of the position's full volume,
\* priced at that ticker's last daily close, stamps its realized PnL, and
\* afterwards no ticker has a position with volume > 0; tickers that were
\* flat get no trade.
C32_Original ==
    op = "finalize" =>
        /\ \A t \in OpenBefore :
              /\ Len(ledger.trades[t]) = Len(pre_ledger.trades[t]) + 1
              /\ IsPrefix(pre_ledger.trades[t], ledger.trades[t])
              /\ IsFinalClose(ledger.trades[t][Len(ledger.trades[t])], t,
                              pre_ledger.position[t])
        /\ \A t \in DOMAIN ledger.position :
              ledger.position[t] = None \/ ledger.position[t].volume = 0
        /\ \A t \in DOMAIN pre_ledger.trades \ OpenBefore :
              ledger.trades[t] = pre_ledger.trades[t]

\* What the call does: with an open position it raises at pos.avg_price and
\* leaves the ledger as it was; without one it changes nothing
C32_RaisesOrNoOp ==
    op = "finalize" =>
        /\ ledger = pre_ledger
        /\ exc = (IF OpenBefore = {} THEN "none" ELSE "AttributeError")

\* Reached: a long position of a ticker with a last daily close is still
\* open after finalize_positions, which raised
C32_Reach_StillOpen ==
    /\ op = "finalize"
    /\ exc = "AttributeError"
    /\ "AAA" \in OpenBefore
    /\ HasKey(fn.arg, "AAA")
    /\ ledger.position["AAA"].volume > 0
    /\ ledger.trades["AAA"] = pre_ledger.trades["AAA"]

\* Reached: finalize_positions returns on a ledger whose tickers are flat
C32_Reach_Flat ==
    /\ op = "finalize"
    /\ exc = "none"
    /\ DOMAIN ledger.position = Symbols
    /\ OpenBefore = {}
    /\ calls = MaxCalls

\* ======================================================================
\* C33, C34, C35: the regressions of LinRegSigmaStrategy.run_strategy
\* ======================================================================
\* The two fits on ticker t's own daily closes for a re-fit on date d
OwnFits(t, d) ==
    _compute_linregs_for_ticker(t, period_df(run.daily_data[t], d), d)

\* The regression parameters in use were fitted on the closes of ticker t
FittedOn(t) ==
    \E d \in IndexOf(run.daily_data[t]) :
        /\ OwnFits(t, d) # None
        /\ run.medium_term_results = OwnFits(t, d).medium
        /\ run.long_term_results = OwnFits(t, d).long

\* C33 as stated: the regression parameters (slope, intercept, sigma,
\* data_length) used to compute the bands for ticker T on a simulation date
\* were always fitted on T's own daily closes; parameters fitted for one
\* ticker are never used to simulate another, whatever the weekday of T's
\* first simulation date.
C33_Original == run.pc = "request" => FittedOn(RunTicker)

\* Reached: the bands of BBB on a Thursday come from the fit on AAA's closes
C33_Reach_OtherTicker ==
    /\ run.pc = "request"
    /\ RunTicker = "BBB"
    /\ weekday(RunDate) = 3
    /\ ~FittedOn("BBB")
    /\ FittedOn("AAA")

\* Reached: the bands of BBB come from its own closes, after a Friday re-fit
C33_Reach_OwnTicker ==
    /\ run.pc = "request"
    /\ RunTicker = "BBB"
    /\ FittedOn("BBB")
    /\ Len(run.history) >= 2
    /\ run.history[1].ticker = "AAA"


\* The last n rows of a frame
LastRows(rows, n) == SubSeq(rows, Len(rows) - n + 1, Len(rows))

\* The rows of the current ticker's daily frame dated before the current
\* simulation date
EarlierRows ==
    LET rows == run.daily_data[RunTicker]
    IN  Loc(rows, {rows[k].date : k \in {j \in 1..Len(rows) : rows[j].date < RunDate}})

\* term_results is the fit of the latest data_length of the earlier rows
FitOfEarlierRows(term_results) ==
    /\ term_results.data_length \in 1..Len(EarlierRows)
    /\ term_results = _fit_linreg_scikit(LastRows(EarlierRows, term_results.data_length),
                                         RunDate)

\* C34: no look-ahead in the regression fit: whenever run_strategy fits the
\* medium and long regressions for a simulation date, the fit uses only
\* daily bars dated strictly before that simulation date.
C34_NoLookAhead ==
    (run.pc = "bands" /\ run.refit) =>
        /\ \A k \in 1..Len(run.period_df) : run.period_df[k].date < RunDate
        /\ FitOfEarlierRows(run.medium_term_results)
        /\ FitOfEarlierRows(run.long_term_results)

\* Reached: a re-fit on a date whose frame has a row of that date and a later
\* one, the two windows of different lengths
C34_Witness ==
    /\ run.pc = "bands"
    /\ run.refit
    /\ \E k \in 1..Len(run.daily_data[RunTicker]) : run.daily_data[RunTicker][k].date > RunDate
    /\ run.medium_term_results.data_length = 2
    /\ run.long_term_results.data_length = 3
    /\ run.long_term_results.slope # RZero


\* The iterations of the run that re-fitted, and the number of simulated
\* dates since the last one, the re-fit date itself counting as 1
RefitIterations == {j \in 1..Len(run.history) : run.history[j].refit}
SinceRefit ==
    Len(run.history) + 1 - (CHOOSE j \in RefitIterations : \A i \in RefitIterations : i <= j)

\* intercept + slope x (data_length + k)
BandCentre(term_results, k) ==
    RAdd(term_results.intercept,
         RMul(term_results.slope, RInt(term_results.data_length + k)))

\* C35: run_strategy re-fits the regression exactly on the first simulated
\* date of the run and on every simulation date that is a Friday, and on the
\* k-th simulated date since the last re-fit (the re-fit date counting as
\* k = 1) the band centre passed to the simulator is
\* intercept + slope x (data_length + k), for the medium and the long window.
C35_RefitCadence ==
    /\ \A j \in 1..Len(run.history) :
          run.history[j].refit <=> (j = 1 \/ weekday(run.history[j].date) = 4)
    /\ run.pc = "request" =>
          /\ run.regressions_results.lr_med
                 = BandCentre(run.medium_term_results, SinceRefit)
          /\ run.regressions_results.lr_long
                 = BandCentre(run.long_term_results, SinceRefit)

\* Reached: the Monday after a Friday re-fit that was not the first date of
\* the run, both lines sloping
C35_Witness ==
    /\ run.pc = "request"
    /\ Len(run.history) >= 3
    /\ run.history[Len(run.history) - 1].refit
    /\ weekday(RunDate) = 0
    /\ SinceRefit = 2
    /\ run.medium_term_results.slope # RZero
    /\ run.long_term_results.slope # RZero
    /\ run.medium_term_results.data_length # run.long_term_results.data_length

\* Reached: the third date since the last re-fit
C35_Reach_ThirdDate ==
    /\ run.pc = "request"
    /\ SinceRefit = 3
    /\ run.medium_term_results.slope # RZero

\* Reached: the re-fit of a date with no earlier daily bar raises
C35_Reach_NothingToFit ==
    /\ run.pc = "raised"
    /\ run.exc = "TypeError"
    /\ run.history = <<>>

\* ======================================================================
\* C36: the entry rule of OpenRangeBreakout.simulate_intraday
\* ======================================================================
\* 2 x AvVol / 78, 1e6 when AvVol is missing
C36_Threshold ==
    IF sim.av_vol = None THEN RInt(1000000) ELSE RDivI(RMulI(sim.av_vol, 2), 78)

\* The loop runs its iteration on bar i: df' holds bar i and the volume of
\* bar i - 1
ORB_BarStep == strategy = "ORB" /\ sim.pc = "loop" /\ sim.i < df.n

\* The side of the position the iteration opens, "none" if it opens none
ORB_Opened ==
    IF Len(sim'.trades_log) > Len(sim.trades_log)
          /\ IsOpenTrade(sim'.trades_log[Len(sim.trades_log) + 1])
    THEN sim'.trades_log[Len(sim.trades_log) + 1].side
    ELSE "none"

\* The side the rule of C36 opens on bar i
C36_Rule ==
    IF sim.position # None \/ sim.i < 1 THEN "none"
    ELSE IF ~RLt(C36_Threshold, RInt(df'.prev.Volume)) THEN "none"
    ELSE IF df'.cur.High > sim.hi_price THEN "B"
    ELSE IF df'.cur.Low < sim.lo_price THEN "S"
    ELSE "none"

\* The call starts: with fewer than 2 bars it returns 0.0 without a trade,
\* else the opening range is the first bar's high and low
C36_BeginStep ==
    (strategy = "ORB" /\ sim.pc = "idle" /\ sim'.pc # "idle") =>
        IF df'.n < 2
        THEN sim'.pc = "returned" /\ sim'.final_return = RZero /\ sim'.trades_log = <<>>
        ELSE sim'.pc = "loop" /\ sim'.i = 1 /\ sim'.position = None
             /\ sim'.hi_price = df'.cur.High /\ sim'.lo_price = df'.cur.Low

\* C36: OpenRangeBreakout.simulate_intraday opens a position on bar i
\* (i >= 1) only while FLAT and only if the volume of bar i-1 exceeds the
\* threshold 2 x AvVol / 78 (1e6 when AvVol is missing): long if high(i) >
\* first-bar high, otherwise short if low(i) < first-bar low, the long taking
\* priority when both hold; with fewer than 2 bars it returns 0.0 and records
\* no trade.
C36_EntryRule ==
    [][/\ C36_BeginStep
       /\ ORB_BarStep => ORB_Opened = C36_Rule
       /\ (strategy = "ORB" /\ ~ORB_BarStep) => sim'.trades_log = sim.trades_log]_vars

\* Reached: both breakouts on a bar after a bar of volume 2 with AvVol 39
\* (threshold 1): the long was opened
C36_Witness ==
    /\ strategy = "ORB"
    /\ sim.av_vol = RInt(39)
    /\ df.prev # NoBar
    /\ df.prev.Volume = 2
    /\ df.cur.High > sim.hi_price
    /\ df.cur.Low < sim.lo_price
    /\ Len(sim.trades_log) >= 1
    /\ sim.trades_log[1].side = "B"
    /\ sim.trades_log[1].comment = "Open long breakout"

\* Reached: a breakout bar after a bar of volume 2 with AvVol 78 (threshold
\* 2, not exceeded): no position
C36_Reach_VolumeAtThreshold ==
    /\ strategy = "ORB"
    /\ sim.av_vol = RInt(78)
    /\ df.prev # NoBar
    /\ df.prev.Volume = 2
    /\ df.cur.High > sim.hi_price
    /\ sim.i = 2
    /\ sim.trades_log = <<>>

\* Reached: a short opened with AvVol missing
C36_Reach_ShortNoAvVol ==
    /\ strategy = "ORB"
    /\ sim.av_vol = None
    /\ Len(sim.trades_log) >= 1
    /\ sim.trades_log[1].side = "S"

\* Reached: one bar only
C36_Reach_OneBar ==
    /\ strategy = "ORB"
    /\ sim.pc = "returned"
    /\ df.n = 1

\* ---------------------------------------------------------------- C37
\* The calls the last on_trade_update made: add_position exactly for a
\* fill that found no position or a position of its own side
C37_DispatchedBySide ==
    \A k \in 1..Len(fn.out) :
        LET c == fn.out[k] IN
        c.method = "none" \/
        c.method = (IF c.found = None \/ c.found.side = c.trade.side
                    THEN "add_position" ELSE "reduce_position")

\* No ledger entry is a Position of volume 0
C37_FlatIsNone ==
    \A t \in DOMAIN ledger.position :
        ledger.position[t] = None \/ ledger.position[t].volume > 0

\* C37: on_trade_update applies every fill of the update: with add_position
\* when the ticker has no position or a position of the fill's side, with
\* reduce_position otherwise, so Position.add never meets an opposite-side
\* trade and Position.reduce never a same-side one, and a position reduced
\* to volume 0 is reset to None.
C37_Original ==
    fn.name = "on_trade_update" =>
        /\ fn.exc = "none"
        /\ \A k \in 1..Len(fn.out) : fn.out[k].method # "none"
        /\ C37_DispatchedBySide
        /\ C37_FlatIsNone

\* What the handler does keep: whichever calls it makes are chosen by side,
\* Position.add / Position.reduce never raise their side ValueError, and a
\* flat position is None
C37_SideRuleOfCallsMade ==
    fn.name = "on_trade_update" =>
        /\ fn.exc # "ValueError"
        /\ C37_DispatchedBySide
        /\ C37_FlatIsNone

\* The first fill of a ticker on the ledger as __init__ leaves it
C37_Reach_KeyErrorOnFirstFill ==
    /\ fn.name = "on_trade_update"
    /\ fn.exc = "KeyError"
    /\ pre_ledger = EmptyLedger
    /\ ledger = EmptyLedger

\* A reduce that closed the position, on a ledger a caller filled in
C37_Reach_ReduceToNone ==
    /\ fn.name = "on_trade_update"
    /\ fn.exc = "none"
    /\ \E k \in 1..Len(fn.out) : fn.out[k].method = "reduce_position"
    /\ HasKey(ledger.position, ticker)
    /\ ledger.position[ticker] = None

\* A reduce on a ledger whose pnl dict has no list for the ticker
C37_Reach_ReduceWithoutPnlList ==
    /\ fn.name = "on_trade_update"
    /\ fn.exc = "KeyError"
    /\ \E k \in 1..Len(fn.out) : fn.out[k].method = "reduce_position"

\* ---------------------------------------------------------------- C38
\* Every execution of order i is in the trade log exactly once
AppliedOnce(i) ==
    \A k \in 1..Len(app.orders[i].fills) :
        AppliedTimes(app.orders[i], app.orders[i].fills[k]) = 1

\* C38: over the trade updates of an order, each carrying the order's
\* cumulative fill list, every execution is applied to the ledger and
\* appended to the trade log exactly once: never more than once, and once
\* as soon as the update that carries it has been handled.
C38_Original ==
    /\ \A i \in 1..Len(app.orders) : \A k \in 1..Len(app.orders[i].fills) :
          AppliedTimes(app.orders[i], app.orders[i].fills[k]) <= 1
    /\ (fn.name = "on_trade_update" /\ fn.exc = "none") => AppliedOnce(fn.arg)

\* An execution that two updates applied
C38_Reach_AppliedTwice ==
    \E i \in 1..Len(app.orders) : \E k \in 1..Len(app.orders[i].fills) :
        AppliedTimes(app.orders[i], app.orders[i].fills[k]) = 2

\* A partial fill applied again by the update of the fill that completed
\* the order: the position holds more shares than the order bought
C38_Reach_PositionOverOrder ==
    /\ Len(app.orders) = 1
    /\ Len(app.orders[1].fills) = 2
    /\ Remaining(app.orders[1]) = 0
    /\ fn.exc = "none"
    /\ HasKey(ledger.position, ticker)
    /\ ledger.position[ticker] # None
    /\ ledger.position[ticker].volume > app.orders[1].totalQuantity

BarOrders == {i \in 1..Len(app.orders) : ~HasAttr(app.orders[i].contract, "symbol")}

\* Two opening orders of one flat period
C39_Reach_TwoOpeningOrders ==
    /\ Cardinality(BarOrders) = 2
    /\ HasKey(ledger.position, "AAA")
    /\ ledger.position["AAA"] = None
    /\ ledger.trades["AAA"] = <<>>

\* The wiring of run.py: an IBClientLive and frames with the column Close
\* (or no prepared ticker): on_new_bar returns before its decision
C39_Reach_NothingPrepared ==
    /\ op = "on_new_bar"
    /\ run.lr_info = EmptyDict
    /\ run.prepare_exc = "KeyError"
    /\ ~run.bar.placed

\* A prepared ticker on an IBClientLive, which has no attribute position
C39_Reach_NoPositionAttribute ==
    /\ op = "on_new_bar"
    /\ ~app.has_position
    /\ exc = "AttributeError"
    /\ ~run.bar.placed

\* The update of a fill of an order on_new_bar placed
C39_Reach_BarOrderFillNotApplied ==
    /\ fn.name = "on_trade_update"
    /\ fn.arg \in BarOrders
    /\ fn.exc = "AttributeError"
    /\ app.orders[fn.arg].fills # <<>>

====
